---- MODULE Spec2Model ----
(***************************************************************************)
(* Oracle dynamic-credential backend (builtin/logical/oracle).             *)
(*                                                                         *)
(* Strings are sequences of atoms.  An atom is a one-character string, or, *)
(* in SQL text, a keyword phrase or a template token such as "{{name}}".   *)
(***************************************************************************)
EXTENDS Integers, Sequences, FiniteSets, TLC

VARIABLES
    gen,        \* the usernames generated so far (username specification)
    pw,         \* the state of one run of oraclePasswordRandomString
    variant,    \* the revision of secret_creds.go the backend is built from
    storage,    \* the key-value storage: config/connection, config/lease, roles/
    conn,       \* the backend's b.db, and every handle sql.Open has returned
    ora,        \* the database server
    issued,     \* the credentials handed out: what caller and lease manager hold
    now,        \* the clock
    last,       \* what the last request did and returned
    lock,       \* b.lock: the request goroutine that holds it, or NoThread
    threads     \* the position of every request goroutine

userVars == <<gen>>
pwVars == <<pw>>
concVars == <<lock, threads>>
backendVars == <<variant, storage, conn, ora, issued, now, last, concVars>>
vars == <<gen, pw, variant, storage, conn, ora, issued, now, last, lock, threads>>

----------------------------------------------------------------------------
(* Bounds of the model *)

MaxCalls == 2       \* issue calls whose usernames are compared
TapeLen == 64       \* bytes the random source delivers before it errors
MaxIssued == 1      \* credentials handed out
MaxUsers == 2       \* principals in the database
MaxHandles == 2     \* handles sql.Open returns
MaxCut == 8         \* database calls of one request before the connection is cut
MaxCloses == 2      \* closes of one handle that are told apart
MaxSessions == 2    \* open sessions of one principal
NumThreads == 2     \* request goroutines
MaxTime == 4        \* ticks of the clock

----------------------------------------------------------------------------
(* Characters and strings *)

LowerLetters ==
    {"a","b","c","d","e","f","g","h","i","j","k","l","m",
     "n","o","p","q","r","s","t","u","v","w","x","y","z"}

Digits == {"0","1","2","3","4","5","6","7","8","9"}

SafeChars == LowerLetters \cup Digits \cup {"_"}

Take(s, n) == SubSeq(s, 1, IF n < Len(s) THEN n ELSE Len(s))

Rep(c, n) == [i \in 1..n |-> c]

\* strings.Replace(s, old, new, -1) for a one-character old and new
ReplaceChar(s, old, new) == [i \in 1..Len(s) |-> IF s[i] = old THEN new ELSE s[i]]

----------------------------------------------------------------------------
(* Username generation: pathRoleCreateRead, "Generate the username" *)

oracleUsernameLength == 30
displayNameLimit == 10

\* A UUID as uuid.GenerateUUID formats it: 8-4-4-4-12 hexadecimal digits.
\* g gives the digit that fills each of the five groups.
FormatUUID(g) ==
    Rep(g[1], 8) \o <<"-">> \o Rep(g[2], 4) \o <<"-">> \o Rep(g[3], 4)
        \o <<"-">> \o Rep(g[4], 4) \o <<"-">> \o Rep(g[5], 12)

\* The identifiers the random source may deliver: they differ from the first
\* one in the first group, in the third, in the fourth, or in the fifth only.
UUIDs ==
    { FormatUUID(g) : g \in { <<"0","0","0","0","0">>, <<"f","0","0","0","0">>,
                              <<"0","0","7","0","0">>, <<"0","0","0","a","0">>,
                              <<"0","0","0","0","e">> } }

\* Caller display names (req.DisplayName): empty, short, upper case and
\* hyphen, digit first, exactly the limit, longer than the limit.
DisplayNames ==
    { <<>>,
      <<"f","o","o","b","a","r">>,
      <<"W","e","b","-","A","p","p">>,
      <<"9","t","o","5">>,
      <<"t","o","k","e","n","_","r","o","o","t">>,
      <<"t","o","k","e","n","_","r","o","o","t","x","y","z">> }

TruncateDisplayName(displayName) ==
    IF Len(displayName) > displayNameLimit
    THEN SubSeq(displayName, 1, displayNameLimit)
    ELSE displayName

\* Mutants of NewUsername: the cut to the length limit is missing; the cut
\* keeps 20 characters.
NewUsername_NoCut(displayName, userUUID) ==
    (IF Len(displayName) > 10 THEN SubSeq(displayName, 1, 10) ELSE displayName)
        \o <<"_">> \o [i \in 1..Len(userUUID) |->
                          IF userUUID[i] = "-" THEN "_" ELSE userUUID[i]]

NewUsername_Cut20(displayName, userUUID) ==
    LET joined == NewUsername_NoCut(displayName, userUUID)
    IN  SubSeq(joined, 1, 20)

\* fmt.Sprintf("%s_%s", displayName, strings.Replace(userUUID, "-", "_", -1)),
\* cut to oracleUsernameLength
NewUsername(displayName, userUUID) ==
    LET joined == TruncateDisplayName(displayName) \o <<"_">>
                      \o ReplaceChar(userUUID, "-", "_")
    IN  IF Len(joined) > oracleUsernameLength
        THEN SubSeq(joined, 1, oracleUsernameLength)
        ELSE joined

\* One issue call as far as the username goes.
GenerateUsername ==
    /\ Len(gen) < MaxCalls
    /\ \E d \in DisplayNames, u \in UUIDs :
          gen' = Append(gen, [displayName |-> d, uuid |-> u,
                              username |-> NewUsername(d, u)])
    /\ UNCHANGED <<pwVars, backendVars>>

----------------------------------------------------------------------------
(* Password generation: oraclePasswordRandomString *)

oraclePasswordLength == 30

firstLetterBytes ==
    <<"a","b","c","d","e","f","g","h","i","j","k","l","m",
      "n","o","p","q","r","s","t","u","v","w","x","y","z">>
firstLetterIdxBits == 5
firstLetterIdxMask == 2^firstLetterIdxBits - 1

letterBytes ==
    <<"a","b","c","d","e","f","g","h","i","j","k","l","m",
      "n","o","p","q","r","s","t","u","v","w","x","y","z",
      "_","1","2","3","4","5","6","7","8","9","0">>
letterIdxBits == 6
letterIdxMask == 2^letterIdxBits - 1

Bytes == 0..255

\* Mutant of BitAnd: the byte is reduced modulo the size of the alphabet.
BitAnd_Modulo(aByte, mask) == aByte % (IF mask < 32 THEN 26 ELSE 37)

\* aByte & mask, for a mask of the form 2^k - 1
BitAnd(aByte, mask) == aByte % (mask + 1)

\* result := make([]byte, oraclePasswordLength)
EmptyResult == [i \in 1..oraclePasswordLength |-> "NUL"]

\* Mutant of PasswordStep: the first character is drawn like the others.
PasswordStep_FirstLikeOthers(st, aByte) ==
    LET idx == aByte % 64
    IN  IF idx < 37
        THEN [characterIndex |-> st.characterIndex + 1,
              result |-> [st.result EXCEPT ![st.characterIndex + 1] =
                              <<"a","b","c","d","e","f","g","h","i","j","k","l","m",
                                "n","o","p","q","r","s","t","u","v","w","x","y","z",
                                "_","1","2","3","4","5","6","7","8","9","0">>[idx + 1]]]
        ELSE st

\* One iteration of either loop on the byte read: the loop is chosen by
\* characterIndex, the byte is kept only when its masked value indexes the
\* alphabet.
PasswordStep(st, aByte) ==
    LET first == st.characterIndex < 1
        alphabet == IF first THEN firstLetterBytes ELSE letterBytes
        mask == IF first THEN firstLetterIdxMask ELSE letterIdxMask
        idx == BitAnd(aByte, mask)
    IN  IF idx < Len(alphabet)
        THEN [characterIndex |-> st.characterIndex + 1,
              result |-> [st.result EXCEPT ![st.characterIndex + 1] = alphabet[idx + 1]]]
        ELSE st

RECURSIVE PasswordLoop(_, _, _)
PasswordLoop(st, tape, pos) ==
    IF st.characterIndex >= oraclePasswordLength
    THEN [password |-> st.result, err |-> FALSE]
    ELSE IF pos > Len(tape)
         THEN [password |-> <<>>, err |-> TRUE]
         ELSE PasswordLoop(PasswordStep(st, tape[pos]), tape, pos + 1)

\* oraclePasswordRandomString reading the bytes of tape; a read past the end
\* of the tape is a read error of the random source.
oraclePasswordRandomString(tape) ==
    PasswordLoop([characterIndex |-> 0, result |-> EmptyResult], tape, 1)

\* The random source of the password specification: byte i of the stream is
\* start + i * stride (mod 256); the read after TapeLen bytes errors.
Strides == {1, 5, 64}
TapeByte(start, stride, i) == (start + i * stride) % 256

PasswordInit ==
    pw \in [start : Bytes, stride : Strides, pos : {0}, pc : {"loop"},
            characterIndex : {0}, result : {EmptyResult}, lastByte : {0},
            password : {<<>>}, err : {FALSE}]

\* ReadByte and the body of the loop
PasswordRead ==
    /\ pw.pc = "loop"
    /\ pw.characterIndex < oraclePasswordLength
    /\ pw.pos < TapeLen
    /\ LET aByte == TapeByte(pw.start, pw.stride, pw.pos)
           st == PasswordStep([characterIndex |-> pw.characterIndex,
                               result |-> pw.result], aByte)
       IN  pw' = [pw EXCEPT !.pos = pw.pos + 1, !.lastByte = aByte,
                            !.characterIndex = st.characterIndex,
                            !.result = st.result]
    /\ UNCHANGED <<userVars, backendVars>>

\* ReadByte returns an error: return "", err
PasswordReadError ==
    /\ pw.pc = "loop"
    /\ pw.characterIndex < oraclePasswordLength
    /\ pw.pos >= TapeLen
    /\ pw' = [pw EXCEPT !.pc = "done", !.password = <<>>, !.err = TRUE]
    /\ UNCHANGED <<userVars, backendVars>>

\* return string(result), nil
PasswordReturn ==
    /\ pw.pc = "loop"
    /\ pw.characterIndex >= oraclePasswordLength
    /\ pw' = [pw EXCEPT !.pc = "done", !.password = pw.result, !.err = FALSE]
    /\ UNCHANGED <<userVars, backendVars>>

\* Mutant of PasswordReadEndless: a byte that is kept does not advance the
\* position.
PasswordReadEndless_NeverAdvances ==
    /\ pw.pc = "loop"
    /\ pw.characterIndex < oraclePasswordLength
    /\ LET aByte == TapeByte(pw.start, pw.stride, pw.pos)
           st == PasswordStep([characterIndex |-> pw.characterIndex,
                               result |-> pw.result], aByte)
       IN  pw' = [pw EXCEPT !.pos = (pw.pos + 1) % 256, !.lastByte = aByte,
                            !.result = st.result]
    /\ UNCHANGED <<userVars, backendVars>>

\* ReadByte and the body of the loop, for a random source that has no end:
\* the stream start + i * stride (mod 256) repeats after 256 bytes
PasswordReadEndless ==
    /\ pw.pc = "loop"
    /\ pw.characterIndex < oraclePasswordLength
    /\ LET aByte == TapeByte(pw.start, pw.stride, pw.pos)
           st == PasswordStep([characterIndex |-> pw.characterIndex,
                               result |-> pw.result], aByte)
       IN  pw' = [pw EXCEPT !.pos = (pw.pos + 1) % 256, !.lastByte = aByte,
                            !.characterIndex = st.characterIndex,
                            !.result = st.result]
    /\ UNCHANGED <<userVars, backendVars>>

\* ReadByte returns an error at some read: return "", err
PasswordSourceError ==
    /\ pw.pc = "loop"
    /\ pw.characterIndex < oraclePasswordLength
    /\ pw' = [pw EXCEPT !.pc = "done", !.password = <<>>, !.err = TRUE]
    /\ UNCHANGED <<userVars, backendVars>>

----------------------------------------------------------------------------
(* SQL text: templates, splitting, trimming, substitution *)

Whitespace == {" ", "\n", "\t"}

\* strings.TrimSpace
RECURSIVE TrimLeft(_)
TrimLeft(s) ==
    IF s # <<>> /\ Head(s) \in Whitespace THEN TrimLeft(Tail(s)) ELSE s

RECURSIVE TrimRight(_)
TrimRight(s) ==
    IF s # <<>> /\ s[Len(s)] \in Whitespace
    THEN TrimRight(SubSeq(s, 1, Len(s) - 1))
    ELSE s

TrimSpace(s) == TrimRight(TrimLeft(s))

\* strings.Split(s, sep) for a one-atom separator: always at least one field
RECURSIVE SplitFrom(_, _, _)
SplitFrom(s, sep, field) ==
    IF s = <<>> THEN <<field>>
    ELSE IF Head(s) = sep
         THEN <<field>> \o SplitFrom(Tail(s), sep, <<>>)
         ELSE SplitFrom(Tail(s), sep, Append(field, Head(s)))

Split(s, sep) == SplitFrom(s, sep, <<>>)

\* strutil.ParseStringSlice: split on the separator, trim every field
ParseStringSlice(input, sep) ==
    LET trimmed == TrimSpace(input)
        fields == Split(trimmed, sep)
    IN  IF trimmed = <<>> THEN <<>>
        ELSE [i \in 1..Len(fields) |-> TrimSpace(fields[i])]

\* strutil.ParseArbitraryStringSlice: the templates are no JSON arrays, so the
\* JSON attempt fails and the input is split on the separator
ParseArbitraryStringSlice(input, sep) ==
    IF TrimSpace(input) = <<>> THEN <<>> ELSE ParseStringSlice(input, sep)

\* The template token of a key of the substitution map
TokenOf == [name |-> "{{name}}", password |-> "{{password}}"]

TemplateTokens == {"{{name}}", "{{password}}"}

\* Query(tpl, data): every "{{key}}" of the template, for the keys of data,
\* is replaced by data[key]; anything else is left as it is
RECURSIVE Query(_, _)
Query(tpl, data) ==
    IF tpl = <<>> THEN <<>>
    ELSE LET a == Head(tpl)
             keys == {k \in DOMAIN data : TokenOf[k] = a}
         IN  (IF keys = {} THEN <<a>> ELSE data[CHOOSE k \in keys : TRUE])
                 \o Query(Tail(tpl), data)

\* backend_test.go: testRole
testRole ==
    <<"\n", "CREATE USER", " ", "{{name}}", " ", "IDENTIFIED BY", " ", "{{password}}", ";",
      "\n", "GRANT CONNECT TO", " ", "{{name}}", ";",
      "\n", "GRANT CREATE SESSION TO", " ", "{{name}}", ";", "\n">>

\* a role whose second statement the database rejects
badSecondRole ==
    <<"CREATE USER", " ", "{{name}}", " ", "IDENTIFIED BY", " ", "{{password}}", ";",
      " ", "GRANT NOSUCHPRIV TO", " ", "{{name}}", ";">>

\* a role that writes a row (DML) and then has a statement the database rejects
dmlThenBadRole ==
    <<"INSERT INTO audit VALUES", " ", "{{name}}", ";", "\n",
      "GRANT NOSUCHPRIV TO", " ", "{{name}}">>

\* a role that writes a row and creates the user
dmlRole ==
    <<"INSERT INTO audit VALUES", " ", "{{name}}", ";", ";", "\n",
      "CREATE USER", " ", "{{name}}", " ", "IDENTIFIED BY", " ", "{{password}}", ";",
      "GRANT CREATE SESSION TO", " ", "{{name}}">>

\* secret_creds.go: defaultRevocationSQL, a constant no function reads
defaultRevocationSQLTx == <<"\n", "DROP USER", " ", "{{name}}", "\n">>

\* part_001: defaultRevocationSQL
defaultRevocationSQL ==
    <<"\n", "REVOKE CONNECT FROM", " ", "{{name}}", ";",
      "\n", "REVOKE CREATE SESSION FROM", " ", "{{name}}", ";",
      "\n", "DROP USER", " ", "{{name}}", ";", "\n">>

\* part_000: revocationSQL
revocationSQL ==
    <<"\n", "REVOKE CONNECT FROM", " ", "{{name}}", ";",
      "\n", "REVOKE CREATE SESSION FROM", " ", "{{name}}", ";",
      "\n", "DROP USER", " ", "{{name}}", ";", "\n">>

\* part_000: sessionQuerySQL
sessionQuerySQL ==
    <<"SELECT sid, serial#, username FROM v$session WHERE username = UPPER('",
      "{{name}}", "')">>

\* a revocation template a role may carry
dropOnlySQL == <<"DROP USER", " ", "{{name}}">>

\* a revocation template that mentions the password
passwordRevocationSQL ==
    <<"ALTER USER", " ", "{{name}}", " ", "IDENTIFIED BY", " ", "{{password}}", ";",
      " ", "DROP USER", " ", "{{name}}">>

----------------------------------------------------------------------------
(* The database server: principals, privileges, sessions, one table.        *)
(* Statements that change principals or privileges are DDL: Oracle commits  *)
(* them at once, together with the pending work of the transaction, and a   *)
(* rollback does not undo them.                                             *)

UpperLetters ==
    {"A","B","C","D","E","F","G","H","I","J","K","L","M",
     "N","O","P","Q","R","S","T","U","V","W","X","Y","Z"}

Letters == LowerLetters \cup UpperLetters

IdentifierChars == Letters \cup Digits \cup {"_", "$", "#"}

\* The rule of the comment above the password alphabet, which Oracle applies
\* to every non-quoted name: 1 to 30 characters, begins with a letter, holds
\* only letters, digits, "_", "$" and "#".
ValidIdentifier(n) ==
    /\ Len(n) >= 1
    /\ Len(n) <= 30
    /\ n[1] \in Letters
    /\ \A k \in 1..Len(n) : n[k] \in IdentifierChars

NameVerbs ==
    {"GRANT CONNECT TO", "GRANT CREATE SESSION TO", "REVOKE CONNECT FROM",
     "REVOKE CREATE SESSION FROM", "DROP USER", "INSERT INTO audit VALUES"}

DDLVerbs == (NameVerbs \ {"INSERT INTO audit VALUES"}) \cup {"CREATE USER"}

\* What the server makes of a statement text.
ParseSQL(stmt) ==
    LET verb == IF stmt = <<>> THEN "" ELSE stmt[1]
        by == {i \in 1..Len(stmt) : stmt[i] = "IDENTIFIED BY"}
        p == IF by = {} THEN 0 ELSE CHOOSE i \in by : \A j \in by : i <= j
        bad == [ok |-> FALSE, verb |-> verb, name |-> <<>>, password |-> <<>>]
    IN  IF verb \in NameVerbs
        THEN IF Len(stmt) >= 3 /\ stmt[2] = " "
                  /\ ValidIdentifier(SubSeq(stmt, 3, Len(stmt)))
             THEN [ok |-> TRUE, verb |-> verb,
                   name |-> SubSeq(stmt, 3, Len(stmt)), password |-> <<>>]
             ELSE bad
        ELSE IF verb = "CREATE USER"
        THEN IF p >= 5 /\ Len(stmt) >= p + 2 /\ stmt[2] = " "
                  /\ stmt[p - 1] = " " /\ stmt[p + 1] = " "
                  /\ ValidIdentifier(SubSeq(stmt, 3, p - 2))
                  /\ ValidIdentifier(SubSeq(stmt, p + 2, Len(stmt)))
             THEN [ok |-> TRUE, verb |-> verb, name |-> SubSeq(stmt, 3, p - 2),
                   password |-> SubSeq(stmt, p + 2, Len(stmt))]
             ELSE bad
        ELSE bad

EmptyDatabase == [up |-> TRUE, users |-> {}, rows |-> {}, sessions |-> {}]

UsersNamed(o, n) == {u \in o.users : u.name = n}

UserExists(o, n) == UsersNamed(o, n) # {}

\* v$session: the rows of the sessions of user n
SessionsOf(o, n) == {x \in o.sessions : x.name = n}

PrivOf(verb) ==
    IF verb \in {"GRANT CONNECT TO", "REVOKE CONNECT FROM"}
    THEN "CONNECT" ELSE "CREATE SESSION"

\* A client can log in as n with password p.
Authenticates(o, n, p) ==
    /\ o.up
    /\ \E u \in o.users : u.name = n /\ u.password = p /\ u.privs # {}

\* The server executes a parsed statement.  pending holds the rows written
\* in the open transaction (inTx), which a DDL statement commits.
ExecSQL(o, pending, inTx, p) ==
    LET committed == [o EXCEPT !.rows = o.rows \cup pending]
        u == CHOOSE x \in UsersNamed(o, p.name) : TRUE
        fail == [ok |-> FALSE, ora |-> committed, pending |-> {}]
        done(o2) == [ok |-> TRUE, ora |-> o2, pending |-> {}]
    IN  CASE p.verb = "INSERT INTO audit VALUES" ->
                IF inTx
                THEN [ok |-> TRUE, ora |-> o, pending |-> pending \cup {p.name}]
                ELSE [ok |-> TRUE, ora |-> [o EXCEPT !.rows = o.rows \cup {p.name}],
                      pending |-> pending]
          [] p.verb = "CREATE USER" ->
                IF UserExists(o, p.name) THEN fail
                ELSE done([committed EXCEPT !.users = o.users \cup
                              {[name |-> p.name, password |-> p.password, privs |-> {}]}])
          [] p.verb \in {"GRANT CONNECT TO", "GRANT CREATE SESSION TO"} ->
                IF ~UserExists(o, p.name) THEN fail
                ELSE done([committed EXCEPT !.users = (o.users \ {u}) \cup
                              {[u EXCEPT !.privs = u.privs \cup {PrivOf(p.verb)}]}])
          [] p.verb \in {"REVOKE CONNECT FROM", "REVOKE CREATE SESSION FROM"} ->
                IF ~UserExists(o, p.name) \/ PrivOf(p.verb) \notin u.privs THEN fail
                ELSE done([committed EXCEPT !.users = (o.users \ {u}) \cup
                              {[u EXCEPT !.privs = u.privs \ {PrivOf(p.verb)}]}])
          [] p.verb = "DROP USER" ->
                IF ~UserExists(o, p.name) \/ SessionsOf(o, p.name) # {} THEN fail
                ELSE done([committed EXCEPT !.users = o.users \ {u}])
          [] OTHER -> fail

\* Mutant of PrepareExec: a statement the database rejects is passed over.
PrepareExec_SwallowsExecError(stmt, inTx, strict, st) ==
    LET p == ParseSQL(stmt)
        r == ExecSQL(st.ora, st.pending, inTx, p)
        prep == [st EXCEPT !.prepared = Append(st.prepared, stmt)]
    IN  IF st.budget = 0
        THEN [prep EXCEPT !.err = "conn", !.stage = "prepare"]
        ELSE IF strict /\ ~p.ok
        THEN [prep EXCEPT !.err = "sql", !.stage = "prepare", !.budget = st.budget - 1]
        ELSE IF st.budget = 1
        THEN [prep EXCEPT !.err = "conn", !.stage = "exec", !.budget = 0]
        ELSE IF ~p.ok
        THEN [prep EXCEPT !.err = "sql", !.stage = "exec", !.budget = st.budget - 2]
        ELSE IF ~r.ok
        THEN [prep EXCEPT !.budget = st.budget - 2,
                          !.ora = r.ora, !.pending = r.pending]
        ELSE [prep EXCEPT !.budget = st.budget - 2, !.ora = r.ora,
                          !.pending = r.pending, !.executed = st.executed + 1]

\* Prepare and Exec of one statement.  st.budget is the number of database
\* calls that are still answered; strict tells whether the driver finds a
\* malformed statement when it prepares it or only when it executes it.
PrepareExec(stmt, inTx, strict, st) ==
    LET p == ParseSQL(stmt)
        r == ExecSQL(st.ora, st.pending, inTx, p)
        prep == [st EXCEPT !.prepared = Append(st.prepared, stmt)]
    IN  IF st.budget = 0
        THEN [prep EXCEPT !.err = "conn", !.stage = "prepare"]
        ELSE IF strict /\ ~p.ok
        THEN [prep EXCEPT !.err = "sql", !.stage = "prepare", !.budget = st.budget - 1]
        ELSE IF st.budget = 1
        THEN [prep EXCEPT !.err = "conn", !.stage = "exec", !.budget = 0]
        ELSE IF ~p.ok
        THEN [prep EXCEPT !.err = "sql", !.stage = "exec", !.budget = st.budget - 2]
        ELSE IF ~r.ok
        THEN [prep EXCEPT !.err = "sql", !.stage = "exec", !.budget = st.budget - 2,
                          !.ora = r.ora, !.pending = r.pending]
        ELSE [prep EXCEPT !.budget = st.budget - 2, !.ora = r.ora,
                          !.pending = r.pending, !.executed = st.executed + 1]

\* Mutant of RunQueries: a fragment that is empty after trimming is prepared
\* like the others.
RECURSIVE RunQueries_KeepsEmpty(_, _, _, _, _)
RunQueries_KeepsEmpty(queries, data, inTx, strict, st) ==
    IF queries = <<>> \/ st.err # ""
    THEN st
    ELSE LET query == TrimSpace(Head(queries))
         IN  RunQueries_KeepsEmpty(Tail(queries), data, inTx, strict,
                                   PrepareExec(Query(query, data), inTx, strict, st))

\* The loop "Execute each query" of issue and revoke: trim, skip the empty
\* fragments, substitute, Prepare, Exec; the first error ends it.
RECURSIVE RunQueries(_, _, _, _, _)
RunQueries(queries, data, inTx, strict, st) ==
    IF queries = <<>> \/ st.err # ""
    THEN st
    ELSE LET query == TrimSpace(Head(queries))
         IN  IF Len(query) = 0
             THEN RunQueries(Tail(queries), data, inTx, strict, st)
             ELSE RunQueries(Tail(queries), data, inTx, strict,
                             PrepareExec(Query(query, data), inTx, strict, st))

\* The state of a handler's database work before its first call
StartRun(o, budget) ==
    [ora |-> o, pending |-> {}, budget |-> budget, prepared |-> <<>>,
     executed |-> 0, killed |-> {}, err |-> "", stage |-> ""]

----------------------------------------------------------------------------
(* Storage, lease policy, role registry *)

RoleNames == {"web"}

NoRole == [present |-> FALSE, sql |-> <<>>, revocationSQL |-> <<>>]

RoleEntry(sql, revocation) ==
    [present |-> TRUE, sql |-> sql, revocationSQL |-> revocation]

NoLease == [present |-> FALSE, lease |-> 0, leaseMax |-> 0]

NoConnection == [present |-> FALSE, kind |-> "none"]

\* What may be stored under config/connection: two usable settings, an entry
\* that does not decode, a data source name sql.Open rejects
ConnectionKinds == {"ok", "other", "garbled", "baddsn"}

EmptyStorage ==
    [connection |-> NoConnection, lease |-> NoLease,
     roles |-> [n \in RoleNames |-> NoRole]]

\* b.Role: the entry stored under roles/<name>, nil when there is none
Role(s, n) == IF n \in RoleNames THEN s.roles[n] ELSE NoRole

\* Mutant of Lease: the two durations of the entry are read in the other
\* order.
Lease_MaxFirst(s) ==
    [s.lease EXCEPT !.lease = s.lease.leaseMax, !.leaseMax = s.lease.lease]

\* b.Lease: the entry stored under config/lease, nil when there is none;
\* the callers replace nil by &configLease{}
Lease(s) == s.lease

----------------------------------------------------------------------------
(* Connection Manager: backend.DB and backend.ResetDB *)

NoHandle == 0

EmptyConn == [db |-> NoHandle, handles |-> <<>>]

\* sql.DB.Close; the number of times a handle was closed is counted up to
\* MaxCloses
CloseHandle(c, h) ==
    [c EXCEPT !.handles[h].open = FALSE,
              !.handles[h].closes = IF @ < MaxCloses THEN @ + 1 ELSE MaxCloses]

\* sql.DB.Ping: the handle is open and the server answers
Ping(c, h, up) == c.handles[h].open /\ up

\* Mutant of DB: settings that are not there are used as they are.
DB_OpensUnconfigured(c, s, up, storageFails) ==
    LET hit == c.db # NoHandle /\ Ping(c, c.db, up)
        c1 == IF c.db # NoHandle THEN CloseHandle(c, c.db) ELSE c
        h == Len(c1.handles) + 1
    IN  IF hit THEN [conn |-> c, handle |-> c.db, err |-> ""]
        ELSE IF storageFails THEN [conn |-> c1, handle |-> NoHandle, err |-> "storage"]
        ELSE IF s.connection.kind = "garbled"    \* entry.DecodeJSON fails
        THEN [conn |-> c1, handle |-> NoHandle, err |-> "decode"]
        ELSE IF s.connection.kind = "baddsn"     \* sql.Open fails
        THEN [conn |-> [c1 EXCEPT !.db = NoHandle], handle |-> NoHandle, err |-> "open"]
        ELSE [conn |-> [db |-> h,
                        handles |-> Append(c1.handles,
                                           [open |-> TRUE, closes |-> 0,
                                            dsn |-> s.connection.kind])],
              handle |-> h, err |-> ""]

\* backend.DB under the lock.  storageFails: s.Get returns an error.
DB(c, s, up, storageFails) ==
    LET hit == c.db # NoHandle /\ Ping(c, c.db, up)
        c1 == IF c.db # NoHandle THEN CloseHandle(c, c.db) ELSE c
        h == Len(c1.handles) + 1
    IN  IF hit THEN [conn |-> c, handle |-> c.db, err |-> ""]
        ELSE IF storageFails THEN [conn |-> c1, handle |-> NoHandle, err |-> "storage"]
        ELSE IF ~s.connection.present
        THEN [conn |-> c1, handle |-> NoHandle, err |-> "not configured"]
        ELSE IF s.connection.kind = "garbled"    \* entry.DecodeJSON fails
        THEN [conn |-> c1, handle |-> NoHandle, err |-> "decode"]
        ELSE IF s.connection.kind = "baddsn"     \* sql.Open fails
        THEN [conn |-> [c1 EXCEPT !.db = NoHandle], handle |-> NoHandle, err |-> "open"]
        ELSE [conn |-> [db |-> h,
                        handles |-> Append(c1.handles,
                                           [open |-> TRUE, closes |-> 0,
                                            dsn |-> s.connection.kind])],
              handle |-> h, err |-> ""]

\* Mutant of ResetDB: the handle is closed and stays in the cache.
ResetDB_KeepsHandle(c) ==
    IF c.db # NoHandle THEN CloseHandle(c, c.db) ELSE c

\* backend.ResetDB under the lock
ResetDB(c) ==
    [(IF c.db # NoHandle THEN CloseHandle(c, c.db) ELSE c) EXCEPT !.db = NoHandle]

\* The goroutines the host runs, one for each request, and b.lock when
\* nobody holds it
Threads == 1..NumThreads

NoThread == 0

\* A goroutine that was not given its request yet, and one whose handler has
\* returned
IdleThread ==
    [pc |-> "idle", op |-> "none", handle |-> NoHandle, todo |-> <<>>,
     username |-> <<>>, password |-> <<>>]

DoneThread == [IdleThread EXCEPT !.pc = "done"]

----------------------------------------------------------------------------
(* What a request did and returned *)

NoData == [keys |-> {}, username |-> <<>>, password |-> <<>>, role |-> ""]

Idle ==
    [op |-> "none", err |-> "", stage |-> "", errorResponse |-> FALSE,
     hasResp |-> FALSE, warnings |-> 0, ttl |-> 0,
     data |-> NoData, internal |-> NoData,
     acquired |-> FALSE, handle |-> NoHandle, began |-> FALSE, committed |-> FALSE,
     prepared |-> <<>>, executed |-> 0, sessionQuery |-> <<>>, killed |-> {},
     username |-> <<>>, role |-> "", issueTime |-> 0, at |-> 0,
     generated |-> {}]

\* The statements a request passed to Prepare (l.prepared) are executed one
\* after the other: the ones whose Exec succeeded are the first l.executed.
Executed(l) == SubSeq(l.prepared, 1, l.executed)

----------------------------------------------------------------------------
(* Credential Issuer: pathRoleCreateRead *)

\* Bytes the random source delivers to one call
Tape(start, stride, n) == [i \in 1..n |-> TapeByte(start, stride, i - 1)]

\* tx.Commit, and the deferred tx.Rollback, after the loop: the commit makes
\* the pending rows durable, the rollback drops them
FinishTx(run) ==
    IF run.err # "" THEN [run EXCEPT !.pending = {}]
    ELSE IF run.budget = 0
    THEN [run EXCEPT !.err = "conn", !.stage = "commit", !.pending = {}]
    ELSE [run EXCEPT !.ora.rows = run.ora.rows \cup run.pending, !.pending = {},
                     !.budget = run.budget - 1, !.stage = "committed"]

\* Mutant of IssueResponse: the password is kept in the lease metadata.
IssueResponse_KeepsPassword(base, name, username, password, lease) ==
    [base EXCEPT !.hasResp = TRUE, !.ttl = lease.lease,
                 !.data = [keys |-> {"username", "password"}, username |-> username,
                           password |-> password, role |-> ""],
                 !.internal = [keys |-> {"username", "role", "password"},
                               username |-> username, password |-> password,
                               role |-> name]]

\* b.Secret(SecretCredsType).Response(data, internal), resp.Secret.TTL
IssueResponse(base, name, username, password, lease) ==
    [base EXCEPT !.hasResp = TRUE, !.ttl = lease.lease,
                 !.data = [keys |-> {"username", "password"}, username |-> username,
                           password |-> password, role |-> ""],
                 !.internal = [keys |-> {"username", "role"}, username |-> username,
                               password |-> <<>>, role |-> name]]

\* Mutant of IssueOutcome: the role is looked at after the handle was acquired.
IssueOutcome_LateRoleCheck(name, displayName, userUUID, pwd, cut, strict, sfail) ==
    LET role == Role(storage, name)
        lease == Lease(storage)
        username == NewUsername(displayName, userUUID)
        acq == DB(conn, storage, ora.up, sfail = "connection")
        budget == IF ora.up THEN cut ELSE 0
        run == FinishTx(RunQueries(ParseArbitraryStringSlice(role.sql, ";"),
                                   [name |-> username, password |-> pwd.password],
                                   TRUE, strict, StartRun(ora, budget - 1)))
        base == [Idle EXCEPT !.op = "issue", !.role = name]
        named == [base EXCEPT !.username = username,
                              !.generated = {"username", "password"}]
        got == [named EXCEPT !.acquired = TRUE, !.handle = acq.handle]
        ran == [got EXCEPT !.began = TRUE, !.prepared = run.prepared,
                           !.executed = run.executed, !.err = run.err,
                           !.stage = run.stage, !.committed = run.err = ""]
        same(l) == [last |-> l, conn |-> conn, ora |-> ora]
    IN  IF sfail = "role" THEN same([base EXCEPT !.err = "storage"])
        ELSE IF sfail = "lease" THEN same([base EXCEPT !.err = "storage"])
        ELSE IF pwd.err
        THEN same([base EXCEPT !.username = username, !.err = "entropy",
                               !.generated = {"username"}])
        ELSE IF acq.err # ""
        THEN [last |-> [named EXCEPT !.acquired = TRUE, !.err = acq.err],
              conn |-> acq.conn, ora |-> ora]
        ELSE IF ~role.present
        THEN [last |-> [got EXCEPT !.hasResp = TRUE, !.errorResponse = TRUE],
              conn |-> acq.conn, ora |-> ora]
        ELSE IF budget = 0
        THEN [last |-> [got EXCEPT !.err = "conn", !.stage = "begin"],
              conn |-> acq.conn, ora |-> ora]
        ELSE IF run.err # ""
        THEN [last |-> ran, conn |-> acq.conn, ora |-> run.ora]
        ELSE [last |-> IssueResponse(ran, name, username, pwd.password, lease),
              conn |-> acq.conn, ora |-> run.ora]

\* pathRoleCreateRead.  pwd is what oraclePasswordRandomString returns to
\* this call; sfail names the storage read that errors ("none": no read
\* errors); cut is the number of database calls of this request that are
\* answered before one fails (a timeout, a dropped connection).
IssueOutcome(name, displayName, userUUID, pwd, cut, strict, sfail) ==
    LET role == Role(storage, name)
        lease == Lease(storage)
        username == NewUsername(displayName, userUUID)
        acq == DB(conn, storage, ora.up, sfail = "connection")
        budget == IF ora.up THEN cut ELSE 0
        run == FinishTx(RunQueries(ParseArbitraryStringSlice(role.sql, ";"),
                                   [name |-> username, password |-> pwd.password],
                                   TRUE, strict, StartRun(ora, budget - 1)))
        base == [Idle EXCEPT !.op = "issue", !.role = name]
        named == [base EXCEPT !.username = username,
                              !.generated = {"username", "password"}]
        got == [named EXCEPT !.acquired = TRUE, !.handle = acq.handle]
        ran == [got EXCEPT !.began = TRUE, !.prepared = run.prepared,
                           !.executed = run.executed, !.err = run.err,
                           !.stage = run.stage, !.committed = run.err = ""]
        same(l) == [last |-> l, conn |-> conn, ora |-> ora]
    IN  IF sfail = "role" THEN same([base EXCEPT !.err = "storage"])
        ELSE IF ~role.present
        THEN same([base EXCEPT !.hasResp = TRUE, !.errorResponse = TRUE])
        ELSE IF sfail = "lease" THEN same([base EXCEPT !.err = "storage"])
        ELSE IF pwd.err
        THEN same([base EXCEPT !.username = username, !.err = "entropy",
                               !.generated = {"username"}])
        ELSE IF acq.err # ""
        THEN [last |-> [named EXCEPT !.acquired = TRUE, !.err = acq.err],
              conn |-> acq.conn, ora |-> ora]
        ELSE IF budget = 0
        THEN [last |-> [got EXCEPT !.err = "conn", !.stage = "begin"],
              conn |-> acq.conn, ora |-> ora]
        ELSE IF run.err # ""
        THEN [last |-> ran, conn |-> acq.conn, ora |-> run.ora]
        ELSE [last |-> IssueResponse(ran, name, username, pwd.password, lease),
              conn |-> acq.conn, ora |-> run.ora]

IssueSucceeded(l) == l.op = "issue" /\ l.err = "" /\ l.hasResp /\ ~l.errorResponse

pathRoleCreateRead(name, displayName, userUUID, pwd, cut, strict, sfail) ==
    /\ Cardinality(issued) < MaxIssued
    /\ Cardinality(ora.users) < MaxUsers
    /\ \E out \in {IssueOutcome(name, displayName, userUUID, pwd, cut, strict, sfail)} :
           /\ Len(out.conn.handles) <= MaxHandles
           /\ last' = out.last
           /\ conn' = out.conn
           /\ ora' = out.ora
           /\ issued' = IF IssueSucceeded(out.last)
                        THEN issued \cup {[username |-> out.last.data.username,
                                           password |-> out.last.data.password,
                                           role |-> out.last.internal.role,
                                           issueTime |-> now,
                                           expires |-> now + out.last.ttl,
                                           revoked |-> FALSE]}
                        ELSE issued
    /\ UNCHANGED <<userVars, pwVars, concVars, variant, storage, now>>

----------------------------------------------------------------------------
(* Revocation Engine: the three revisions of secretCredsRevoke *)

\* The shapes of req.Secret.InternalData the host may hand over: what issue
\* stored ("full"), the username alone as the renew/revoke test sends it
\* ("norole"), no username ("nouser"), a username that is not a string
\* ("badtype").
MetaShapes == {"full", "norole", "nouser", "badtype"}

InternalData(c, shape) ==
    [keys |-> CASE shape = "norole" -> {"username"}
                [] shape = "nouser" -> {"role"}
                [] OTHER -> {"username", "role"},
     usernameIsString |-> shape # "badtype",
     username |-> c.username, role |-> c.role]

\* username, ok := usernameRaw.(string): the empty string when ok is false
UsernameOf(meta) == IF meta.usernameIsString THEN meta.username ELSE <<>>

\* What a revoke or renew request did, from the work it did on the database
Ran(l, run) ==
    [l EXCEPT !.prepared = run.prepared, !.executed = run.executed,
              !.killed = run.killed, !.err = run.err, !.stage = run.stage]

\* secret_creds.go: the role's template or nothing, in a transaction
RevokeOutcomeTx(meta, cut, strict, sfail) ==
    LET username == UsernameOf(meta)
        hasRole == "role" \in meta.keys
        role == Role(storage, meta.role)
        theSQL == IF hasRole /\ role.present THEN role.revocationSQL ELSE <<>>
        acq == DB(conn, storage, ora.up, sfail = "connection")
        budget == IF ora.up THEN cut ELSE 0
        run == FinishTx(RunQueries(ParseArbitraryStringSlice(theSQL, ";"),
                                   [name |-> username], TRUE, strict,
                                   StartRun(ora, budget - 1)))
        base == [Idle EXCEPT !.op = "revoke", !.at = now]
        named == [base EXCEPT !.username = username,
                              !.role = IF hasRole THEN meta.role ELSE "",
                              !.warnings = IF hasRole /\ ~role.present THEN 1 ELSE 0]
        got == [named EXCEPT !.acquired = TRUE, !.handle = acq.handle]
        ran == [Ran(got, run) EXCEPT !.began = TRUE, !.committed = run.err = ""]
        same(l) == [last |-> l, conn |-> conn, ora |-> ora]
    IN  IF "username" \notin meta.keys
        THEN same([base EXCEPT !.err = "missing username"])
        ELSE IF hasRole /\ sfail = "role"
        THEN same([base EXCEPT !.username = username, !.role = meta.role,
                               !.err = "storage"])
        ELSE IF acq.err # ""
        THEN [last |-> [named EXCEPT !.acquired = TRUE, !.err = acq.err],
              conn |-> acq.conn, ora |-> ora]
        ELSE IF budget = 0
        THEN [last |-> [got EXCEPT !.err = "conn", !.stage = "begin"],
              conn |-> acq.conn, ora |-> ora]
        ELSE IF run.err # ""
        THEN [last |-> ran, conn |-> acq.conn, ora |-> run.ora]
        ELSE [last |-> [ran EXCEPT !.hasResp = named.warnings > 0],
              conn |-> acq.conn, ora |-> run.ora]

\* part_000: "Disconnect the session": Prepare and Query of sessionQuerySQL
SessionQuery(username, st) ==
    LET stmt == Query(sessionQuerySQL, [name |-> username])
        prep == [st EXCEPT !.prepared = Append(st.prepared, stmt)]
    IN  IF st.budget = 0
        THEN [prep EXCEPT !.err = "conn", !.stage = "prepare"]
        ELSE IF st.budget = 1
        THEN [prep EXCEPT !.err = "conn", !.stage = "query", !.budget = 0]
        ELSE [prep EXCEPT !.budget = st.budget - 2, !.executed = st.executed + 1]

\* part_000: the loop over the rows, one db.Exec of sessionKillSQL for each
RECURSIVE KillSessions(_, _)
KillSessions(rows, st) ==
    IF rows = {} \/ st.err # ""
    THEN st
    ELSE LET r == CHOOSE x \in rows : \A y \in rows : x.sid <= y.sid
         IN  IF st.budget = 0
             THEN [st EXCEPT !.err = "conn", !.stage = "kill"]
             ELSE KillSessions(rows \ {r},
                      [st EXCEPT !.budget = st.budget - 1,
                                 !.ora.sessions = st.ora.sessions \ {r},
                                 !.killed = st.killed \cup {r.sid}])

\* Mutant of RevokeOutcomeKill: the handle is acquired before the metadata is
\* looked at.
RevokeOutcomeKill_AcquiresFirst(meta, cut, strict, sfail) ==
    LET username == UsernameOf(meta)
        acq == DB(conn, storage, ora.up, sfail = "connection")
        budget == IF ora.up THEN cut ELSE 0
        asked == SessionQuery(username, StartRun(ora, budget))
        killed == KillSessions(SessionsOf(ora, username), asked)
        run == RunQueries(ParseArbitraryStringSlice(revocationSQL, ";"),
                          [name |-> username], FALSE, strict, killed)
        base == [Idle EXCEPT !.op = "revoke", !.at = now]
        named == [base EXCEPT !.username = username]
        got == [named EXCEPT !.acquired = TRUE, !.handle = acq.handle]
        ran == [Ran(got, run) EXCEPT !.sessionQuery = Head(run.prepared)]
    IN  IF "username" \notin meta.keys
        THEN [last |-> [base EXCEPT !.err = "missing username", !.acquired = TRUE],
              conn |-> acq.conn, ora |-> ora]
        ELSE IF acq.err # ""
        THEN [last |-> [named EXCEPT !.acquired = TRUE, !.err = acq.err],
              conn |-> acq.conn, ora |-> ora]
        ELSE [last |-> ran, conn |-> acq.conn, ora |-> run.ora]

\* part_000: the sessions are killed, then the constant template runs
\* without a transaction; no role is looked up
RevokeOutcomeKill(meta, cut, strict, sfail) ==
    LET username == UsernameOf(meta)
        acq == DB(conn, storage, ora.up, sfail = "connection")
        budget == IF ora.up THEN cut ELSE 0
        asked == SessionQuery(username, StartRun(ora, budget))
        killed == KillSessions(SessionsOf(ora, username), asked)
        run == RunQueries(ParseArbitraryStringSlice(revocationSQL, ";"),
                          [name |-> username], FALSE, strict, killed)
        base == [Idle EXCEPT !.op = "revoke", !.at = now]
        named == [base EXCEPT !.username = username]
        got == [named EXCEPT !.acquired = TRUE, !.handle = acq.handle]
        ran == [Ran(got, run) EXCEPT !.sessionQuery = Head(run.prepared)]
    IN  IF "username" \notin meta.keys
        THEN [last |-> [base EXCEPT !.err = "missing username"],
              conn |-> conn, ora |-> ora]
        ELSE IF acq.err # ""
        THEN [last |-> [named EXCEPT !.acquired = TRUE, !.err = acq.err],
              conn |-> acq.conn, ora |-> ora]
        ELSE [last |-> ran, conn |-> acq.conn, ora |-> run.ora]

\* part_001: the role's template, or the default one with a warning when the
\* role or its template is missing; no transaction
RevokeOutcomeRole(meta, cut, strict, sfail) ==
    LET username == UsernameOf(meta)
        roleName == IF "role" \in meta.keys THEN meta.role ELSE ""
        role == IF roleName # "" THEN Role(storage, roleName) ELSE NoRole
        custom == role.present /\ role.revocationSQL # <<>>
        theSQL == IF custom THEN role.revocationSQL ELSE defaultRevocationSQL
        acq == DB(conn, storage, ora.up, sfail = "connection")
        budget == IF ora.up THEN cut ELSE 0
        run == RunQueries(ParseArbitraryStringSlice(theSQL, ";"),
                          [name |-> username], FALSE, strict, StartRun(ora, budget))
        base == [Idle EXCEPT !.op = "revoke", !.at = now]
        named == [base EXCEPT !.username = username, !.role = roleName,
                              !.warnings = IF custom THEN 0 ELSE 1]
        got == [named EXCEPT !.acquired = TRUE, !.handle = acq.handle]
        ran == Ran(got, run)
        same(l) == [last |-> l, conn |-> conn, ora |-> ora]
    IN  IF "username" \notin meta.keys
        THEN same([base EXCEPT !.err = "missing username"])
        ELSE IF roleName # "" /\ sfail = "role"
        THEN same([base EXCEPT !.username = username, !.role = roleName,
                               !.err = "storage"])
        ELSE IF acq.err # ""
        THEN [last |-> [named EXCEPT !.acquired = TRUE, !.err = acq.err],
              conn |-> acq.conn, ora |-> ora]
        ELSE IF run.err # ""
        THEN [last |-> ran, conn |-> acq.conn, ora |-> run.ora]
        ELSE [last |-> [ran EXCEPT !.hasResp = named.warnings > 0],
              conn |-> acq.conn, ora |-> run.ora]

\* The request of the host and what it makes of the answer: a revoked lease
\* is marked
Revoked(c, out) ==
    /\ Len(out.conn.handles) <= MaxHandles
    /\ last' = out.last
    /\ conn' = out.conn
    /\ ora' = out.ora
    /\ issued' = IF out.last.err = "" /\ c \in issued
                 THEN (issued \ {c}) \cup {[c EXCEPT !.revoked = TRUE]}
                 ELSE issued
    /\ UNCHANGED <<userVars, pwVars, concVars, variant, storage, now>>

secretCredsRevokeTx(c, shape, cut, strict, sfail) ==
    /\ variant = "tx"
    /\ \E out \in {RevokeOutcomeTx(InternalData(c, shape), cut, strict, sfail)} :
           Revoked(c, out)

secretCredsRevokeKill(c, shape, cut, strict, sfail) ==
    /\ variant = "kill"
    /\ \E out \in {RevokeOutcomeKill(InternalData(c, shape), cut, strict, sfail)} :
           Revoked(c, out)

secretCredsRevokeRole(c, shape, cut, strict, sfail) ==
    /\ variant = "role"
    /\ \E out \in {RevokeOutcomeRole(InternalData(c, shape), cut, strict, sfail)} :
           Revoked(c, out)

----------------------------------------------------------------------------
(* Renewal Handler: framework.LeaseExtend and the revisions of secretCredsRenew *)

\* b.System(): the lease TTLs of the mount
SystemDefaultLeaseTTL == 2
SystemMaxLeaseTTL == 3

\* framework.LeaseExtend(backendIncrement, backendMax, systemView) applied to
\* the lease options of the request at time t
LeaseExtend(backendIncrement, backendMax, leaseOpts, t) ==
    LET max == IF backendMax > 0 /\ backendMax < SystemMaxLeaseTTL
               THEN backendMax ELSE SystemMaxLeaseTTL
        maxValidTime == leaseOpts.issueTime + max
        asked == IF backendIncrement > 0 THEN backendIncrement ELSE leaseOpts.increment
        increment == IF asked <= 0 THEN SystemDefaultLeaseTTL ELSE asked
    IN  IF maxValidTime < t
        THEN [err |-> "past the max TTL", ttl |-> 0]
        ELSE IF maxValidTime < t + increment
        THEN [err |-> "", ttl |-> maxValidTime - t]
        ELSE [err |-> "", ttl |-> increment]

\* Mutant of RenewOutcome: the ceiling of the lease policy is not passed on.
RenewOutcome_NoCeiling(leaseOpts, sfail) ==
    LET lease == Lease(storage)
        r == LeaseExtend(lease.lease, 0, leaseOpts, now)
        base == [Idle EXCEPT !.op = "renew", !.at = now,
                             !.issueTime = leaseOpts.issueTime]
    IN  IF sfail = "lease" THEN [base EXCEPT !.err = "storage"]
        ELSE IF r.err # "" THEN [base EXCEPT !.err = r.err]
        ELSE [base EXCEPT !.hasResp = TRUE, !.ttl = r.ttl]

\* part_000 and part_001: the lease policy is read and the TTL computed
RenewOutcome(leaseOpts, sfail) ==
    LET lease == Lease(storage)
        r == LeaseExtend(lease.lease, lease.leaseMax, leaseOpts, now)
        base == [Idle EXCEPT !.op = "renew", !.at = now,
                             !.issueTime = leaseOpts.issueTime]
    IN  IF sfail = "lease" THEN [base EXCEPT !.err = "storage"]
        ELSE IF r.err # "" THEN [base EXCEPT !.err = r.err]
        ELSE [base EXCEPT !.hasResp = TRUE, !.ttl = r.ttl]

\* secret_creds.go: fmt.Sprintf("ALTER ROLE '%s' VALID UNTIL '%s';", ...)
ValidUntilSQL(username, expiration) ==
    <<"ALTER ROLE", " ", "'">> \o username
        \o <<"'", " ", "VALID UNTIL", " ", "'", ToString(expiration), "'", ";">>

\* secret_creds.go: a handle is acquired before the lease policy is read, and
\* a renewed lease with an expiration time is written to the database
RenewOutcomeTx(meta, leaseOpts, cut, strict, sfail) ==
    LET username == UsernameOf(meta)
        acq == DB(conn, storage, ora.up, sfail = "connection")
        lease == Lease(storage)
        r == LeaseExtend(lease.lease, lease.leaseMax, leaseOpts, now)
        budget == IF ora.up THEN cut ELSE 0
        run == PrepareExec(ValidUntilSQL(username, leaseOpts.issueTime + r.ttl),
                           FALSE, strict, StartRun(ora, budget))
        base == [Idle EXCEPT !.op = "renew", !.at = now,
                             !.issueTime = leaseOpts.issueTime]
        named == [base EXCEPT !.username = username]
        got == [named EXCEPT !.acquired = TRUE, !.handle = acq.handle]
        ran == Ran(got, run)
    IN  IF "username" \notin meta.keys
        THEN [last |-> [base EXCEPT !.err = "missing username"],
              conn |-> conn, ora |-> ora]
        ELSE IF acq.err # ""
        THEN [last |-> [named EXCEPT !.acquired = TRUE, !.err = acq.err],
              conn |-> acq.conn, ora |-> ora]
        ELSE IF sfail = "lease"
        THEN [last |-> [got EXCEPT !.err = "storage"], conn |-> acq.conn, ora |-> ora]
        ELSE IF r.err # ""
        THEN [last |-> [got EXCEPT !.err = r.err], conn |-> acq.conn, ora |-> ora]
        ELSE IF r.ttl = 0
        THEN [last |-> [got EXCEPT !.hasResp = TRUE], conn |-> acq.conn, ora |-> ora]
        ELSE IF run.err # ""
        THEN [last |-> ran, conn |-> acq.conn, ora |-> run.ora]
        ELSE [last |-> [ran EXCEPT !.hasResp = TRUE, !.ttl = r.ttl],
              conn |-> acq.conn, ora |-> run.ora]

\* The lease options of a renew request for credential c
LeaseOptions(c, increment) == [issueTime |-> c.issueTime, increment |-> increment]

\* The host extends a renewed lease
Renewed(c, out) ==
    /\ Len(out.conn.handles) <= MaxHandles
    /\ last' = out.last
    /\ conn' = out.conn
    /\ ora' = out.ora
    /\ issued' = IF out.last.err = "" /\ c \in issued
                 THEN (issued \ {c}) \cup {[c EXCEPT !.expires = now + out.last.ttl]}
                 ELSE issued
    /\ UNCHANGED <<userVars, pwVars, concVars, variant, storage, now>>

secretCredsRenewTx(c, shape, increment, cut, strict, sfail) ==
    /\ variant = "tx"
    /\ \E out \in {RenewOutcomeTx(InternalData(c, shape), LeaseOptions(c, increment),
                                  cut, strict, sfail)} :
           Renewed(c, out)

secretCredsRenew(c, increment, sfail) ==
    /\ variant \in {"kill", "role"}
    /\ \E l \in {RenewOutcome(LeaseOptions(c, increment), sfail)} :
           Renewed(c, [last |-> l, conn |-> conn, ora |-> ora])

----------------------------------------------------------------------------
(* Concurrent requests: the host runs every request in a goroutine of its   *)
(* own.  A request is followed call by call: b.DB or b.ResetDB with b.lock, *)
(* then the calls on the handle it got.                                      *)

\* The statements a handler passes to Prepare for a template: the fragments
\* between the separators, trimmed, the empty ones left out, substituted
Statements(sql, data) ==
    LET queries == ParseArbitraryStringSlice(sql, ";")
        kept == SelectSeq(queries, LAMBDA q : Len(TrimSpace(q)) # 0)
    IN  [i \in 1..Len(kept) |-> Query(TrimSpace(kept[i]), data)]

\* The calls of a request on its handle
Call(kind, sql) == [kind |-> kind, sql |-> sql, sid |-> 0]

Calls(stmts) == [i \in 1..Len(stmts) |-> Call("stmt", stmts[i])]

\* the identifier uuid.GenerateUUID gives to the request of goroutine t
ThreadUUID(t) == FormatUUID(<<(<<"1", "2", "3", "4">>)[t], "0", "0", "0", "0">>)

\* pathRoleCreateRead after the role lookup: Begin, the statements, Commit
IssueCalls(role, username, password) ==
    <<Call("begin", <<>>)>>
        \o Calls(Statements(role.sql, [name |-> username, password |-> password]))
        \o <<Call("commit", <<>>)>>

\* secretCredsRevoke after the role lookup, in each revision
RevokeCalls(meta) ==
    LET username == UsernameOf(meta)
        role == IF "role" \in meta.keys THEN Role(storage, meta.role) ELSE NoRole
        data == [name |-> username]
    IN  CASE variant = "tx" ->
                 <<Call("begin", <<>>)>>
                     \o Calls(Statements(role.revocationSQL, data))
                     \o <<Call("commit", <<>>)>>
          [] variant = "kill" ->
                 <<Call("query", Query(sessionQuerySQL, data))>>
                     \o Calls(Statements(revocationSQL, data))
          [] OTHER ->
                 Calls(Statements(IF role.present /\ role.revocationSQL # <<>>
                                  THEN role.revocationSQL
                                  ELSE defaultRevocationSQL, data))

Running(op) == Cardinality({t \in Threads : threads[t].op = op})

\* The host dispatches a request to goroutine t; the handler runs up to its
\* call of b.DB
IssueStart(t, displayName, password) ==
    /\ threads[t].pc = "idle"
    /\ Role(storage, "web").present
    /\ Cardinality(issued) + Running("issue") < MaxIssued
    /\ Cardinality(ora.users) + Running("issue") < MaxUsers
    /\ threads' = [threads EXCEPT ![t] =
           [IdleThread EXCEPT !.pc = "lock", !.op = "issue",
               !.username = NewUsername(displayName, ThreadUUID(t)),
               !.password = password,
               !.todo = IssueCalls(Role(storage, "web"),
                                   NewUsername(displayName, ThreadUUID(t)),
                                   password)]]
    /\ UNCHANGED <<userVars, pwVars, variant, storage, conn, ora, issued, now, last,
                   lock>>

RevokeStart(t, c) ==
    /\ threads[t].pc = "idle"
    /\ threads' = [threads EXCEPT ![t] =
           [IdleThread EXCEPT !.pc = "lock", !.op = "revoke",
               !.username = c.username,
               !.todo = RevokeCalls(InternalData(c, "full"))]]
    /\ UNCHANGED <<userVars, pwVars, variant, storage, conn, ora, issued, now, last,
                   lock>>

\* the host calls Clean
ResetStart(t) ==
    /\ threads[t].pc = "idle"
    /\ threads' = [threads EXCEPT ![t] =
           [IdleThread EXCEPT !.pc = "lock", !.op = "reset"]]
    /\ UNCHANGED <<userVars, pwVars, variant, storage, conn, ora, issued, now, last,
                   lock>>

\* Mutant of DBLock: the lock is taken whoever holds it.
DBLock_NoMutex(t) ==
    /\ threads[t].pc = "lock"
    /\ lock' = t
    /\ threads' = [threads EXCEPT ![t].pc =
           IF threads[t].op = "reset" THEN "inReset" ELSE "inDB"]
    /\ UNCHANGED <<userVars, pwVars, variant, storage, conn, ora, issued, now, last>>

\* b.lock.Lock() at the top of DB and of ResetDB
DBLock(t) ==
    /\ threads[t].pc = "lock"
    /\ lock = NoThread
    /\ lock' = t
    /\ threads' = [threads EXCEPT ![t].pc =
           IF threads[t].op = "reset" THEN "inReset" ELSE "inDB"]
    /\ UNCHANGED <<userVars, pwVars, variant, storage, conn, ora, issued, now, last>>

\* Mutant of DBUnlock: b.lock.Unlock() is not deferred, it is called on the
\* returns that hand out a handle only.
DBUnlock_KeepsLockOnError(t) ==
    /\ threads[t].pc = "inDB"
    /\ \E storageFails \in BOOLEAN :
           \E acq \in {DB(conn, storage, ora.up, storageFails)} :
               /\ Len(acq.conn.handles) <= MaxHandles
               /\ conn' = acq.conn
               /\ threads' = [threads EXCEPT ![t] =
                      IF acq.err # "" THEN DoneThread
                      ELSE [@ EXCEPT !.pc = "run", !.handle = acq.handle]]
               /\ lock' = IF acq.err # "" THEN lock ELSE NoThread
    /\ UNCHANGED <<userVars, pwVars, variant, storage, ora, issued, now, last>>

\* the body of DB and the deferred b.lock.Unlock(): the handler goes on with
\* the handle, or returns the error; the read of config/connection may fail
DBUnlock(t) ==
    /\ threads[t].pc = "inDB"
    /\ \E storageFails \in BOOLEAN :
           \E acq \in {DB(conn, storage, ora.up, storageFails)} :
               /\ Len(acq.conn.handles) <= MaxHandles
               /\ conn' = acq.conn
               /\ threads' = [threads EXCEPT ![t] =
                      IF acq.err # "" THEN DoneThread
                      ELSE [@ EXCEPT !.pc = "run", !.handle = acq.handle]]
    /\ lock' = NoThread
    /\ UNCHANGED <<userVars, pwVars, variant, storage, ora, issued, now, last>>

\* the body of ResetDB and the deferred b.lock.Unlock()
ResetDBUnlock(t) ==
    /\ threads[t].pc = "inReset"
    /\ conn' = ResetDB(conn)
    /\ lock' = NoThread
    /\ threads' = [threads EXCEPT ![t] = DoneThread]
    /\ UNCHANGED <<userVars, pwVars, variant, storage, ora, issued, now, last>>

\* The next call of the handler on its handle: Begin, Prepare and Exec of a
\* statement, the session query, a session kill, Commit.  A handle that was
\* closed meanwhile answers every call with an error, and so does the
\* database for a statement it rejects: the handler returns.
HandleCall(t) ==
    LET th == threads[t]
        call == Head(th.todo)
        run == PrepareExec(call.sql, FALSE, FALSE, StartRun(ora, 2))
        rows == SessionsOf(ora, th.username)
        sids == {x.sid : x \in rows}
        kills == [i \in 1..Cardinality(sids) |->
                     [kind |-> "kill", sql |-> <<>>,
                      sid |-> CHOOSE k \in sids :
                                  Cardinality({j \in sids : j < k}) = i - 1]]
    IN  /\ th.pc = "run"
        /\ th.todo # <<>>
        /\ IF ~conn.handles[th.handle].open \/ ~ora.up
           THEN /\ threads' = [threads EXCEPT ![t] = DoneThread]
                /\ ora' = ora
           ELSE CASE call.kind = "stmt" ->
                        /\ ora' = run.ora
                        /\ threads' = [threads EXCEPT ![t] =
                               IF run.err # "" THEN DoneThread
                               ELSE [th EXCEPT !.todo = Tail(th.todo)]]
                  [] call.kind = "query" ->
                        /\ ora' = ora
                        /\ threads' = [threads EXCEPT ![t].todo = kills \o Tail(th.todo)]
                  [] call.kind = "kill" ->
                        /\ ora' = [ora EXCEPT !.sessions =
                               {x \in ora.sessions :
                                   ~(x.name = th.username /\ x.sid = call.sid)}]
                        /\ threads' = [threads EXCEPT ![t].todo = Tail(th.todo)]
                  [] OTHER ->
                        /\ ora' = ora
                        /\ threads' = [threads EXCEPT ![t].todo = Tail(th.todo)]
        /\ UNCHANGED <<userVars, pwVars, variant, storage, conn, issued, now, last,
                       lock>>

\* The handler returns its response; the host keeps the lease of an issued
\* credential and marks a revoked one
RequestReturn(t) ==
    LET th == threads[t]
    IN  /\ th.pc = "run"
        /\ th.todo = <<>>
        /\ threads' = [threads EXCEPT ![t] = DoneThread]
        /\ issued' =
               CASE th.op = "issue" ->
                        issued \cup {[username |-> th.username,
                                      password |-> th.password,
                                      role |-> "web", issueTime |-> now,
                                      expires |-> now + Lease(storage).lease,
                                      revoked |-> FALSE]}
                 [] th.op = "revoke" ->
                        {[c EXCEPT !.revoked = @ \/ c.username = th.username] :
                             c \in issued}
                 [] OTHER -> issued
        /\ UNCHANGED <<userVars, pwVars, variant, storage, conn, ora, now, last, lock>>

\* The goroutine of a request that returned is gone; the host runs the next
\* request in a new one
NextRequest(t) ==
    /\ threads[t].pc = "done"
    /\ threads' = [threads EXCEPT ![t] = IdleThread]
    /\ UNCHANGED <<userVars, pwVars, variant, storage, conn, ora, issued, now, last,
                   lock>>

----------------------------------------------------------------------------
(* Configuration and role paths, the clock, the server, the clients *)

\* write config/connection: store the settings, reset the cached handle
ConfigConnectionWrite(kind) ==
    /\ lock = NoThread
    /\ storage' = [storage EXCEPT !.connection = [present |-> TRUE, kind |-> kind]]
    /\ conn' = ResetDB(conn)
    /\ last' = [Idle EXCEPT !.op = "config/connection"]
    /\ UNCHANGED <<userVars, pwVars, concVars, variant, ora, issued, now>>

\* write config/lease
ConfigLeaseWrite(lease, leaseMax) ==
    /\ storage' = [storage EXCEPT !.lease = [present |-> TRUE, lease |-> lease,
                                             leaseMax |-> leaseMax]]
    /\ last' = [Idle EXCEPT !.op = "config/lease"]
    /\ UNCHANGED <<userVars, pwVars, concVars, variant, conn, ora, issued, now>>

\* write roles/<name>
RoleWrite(name, entry) ==
    /\ storage.roles[name] # entry
    /\ storage' = [storage EXCEPT !.roles[name] = entry]
    /\ last' = [Idle EXCEPT !.op = "roles/write", !.role = name]
    /\ UNCHANGED <<userVars, pwVars, concVars, variant, conn, ora, issued, now>>

\* delete roles/<name>
RoleDelete(name) ==
    /\ storage.roles[name].present
    /\ storage' = [storage EXCEPT !.roles[name] = NoRole]
    /\ last' = [Idle EXCEPT !.op = "roles/delete", !.role = name]
    /\ UNCHANGED <<userVars, pwVars, concVars, variant, conn, ora, issued, now>>

\* Clean: b.ResetDB
Clean ==
    /\ lock = NoThread
    /\ conn.db # NoHandle
    /\ conn' = ResetDB(conn)
    /\ last' = [Idle EXCEPT !.op = "reset"]
    /\ UNCHANGED <<userVars, pwVars, concVars, variant, storage, ora, issued, now>>

\* the server comes back
ServerUp ==
    /\ ~ora.up
    /\ ora' = [ora EXCEPT !.up = TRUE]
    /\ UNCHANGED <<userVars, pwVars, concVars, variant, storage, conn, issued, now,
                   last>>

\* the server goes away, and with it every session
ServerDown ==
    /\ ora.up
    /\ ora' = [ora EXCEPT !.up = FALSE, !.sessions = {}]
    /\ UNCHANGED <<userVars, pwVars, concVars, variant, storage, conn, issued, now,
                   last>>

\* the caller of a credential opens a session with it
ClientConnect(c) ==
    /\ Authenticates(ora, c.username, c.password)
    /\ Cardinality(SessionsOf(ora, c.username)) < MaxSessions
    /\ LET free == (1..MaxSessions) \ {x.sid : x \in SessionsOf(ora, c.username)}
           sid == CHOOSE i \in free : \A j \in free : i <= j
       IN  ora' = [ora EXCEPT !.sessions =
                       ora.sessions \cup {[name |-> c.username, sid |-> sid]}]
    /\ UNCHANGED <<userVars, pwVars, concVars, variant, storage, conn, issued, now,
                   last>>

Tick ==
    /\ now < MaxTime
    /\ now' = now + 1
    /\ UNCHANGED <<userVars, pwVars, concVars, variant, storage, conn, ora, issued,
                   last>>

----------------------------------------------------------------------------
(* Claims about username generation (SpecUser) *)

\* C6: every generated username starts with a lower-case letter and contains
\* only characters of [a-z0-9_], whatever the caller's display name is.
C6_UsernameSafeAlphabet ==
    \A i \in 1..Len(gen) :
        LET u == gen[i].username
        IN  /\ Len(u) >= 1
            /\ u[1] \in LowerLetters
            /\ \A k \in 1..Len(u) : u[k] \in SafeChars

\* C7: every generated username has at most 30 characters, and of the display
\* name only its first 10 characters appear in it: they are followed by the
\* separator and then by a prefix of the identifier, hyphens as underscores.
C7_UsernameLength ==
    \A i \in 1..Len(gen) :
        LET u == gen[i].username
            d == gen[i].displayName
            k == IF Len(d) < 10 THEN Len(d) ELSE 10
            id == ReplaceChar(gen[i].uuid, "-", "_")
        IN  /\ Len(u) <= 30
            /\ Len(u) >= k + 1
            /\ SubSeq(u, 1, k) = SubSeq(d, 1, k)
            /\ u[k + 1] = "_"
            /\ SubSeq(u, k + 2, Len(u)) = SubSeq(id, 1, Len(u) - k - 1)

C7_Witness ==
    \E i \in 1..Len(gen) :
        /\ Len(gen[i].displayName) > 10
        /\ Len(gen[i].username) = 30

\* C8 as stated: usernames generated from pairwise distinct identifiers are
\* pairwise distinct, also after the cut to 30 characters.
C8_DistinctUUIDsDistinctUsernames ==
    \A i, j \in 1..Len(gen) :
        (i # j /\ gen[i].uuid # gen[j].uuid) => gen[i].username # gen[j].username

\* C8 amended: usernames are pairwise distinct when the identifiers differ
\* pairwise within their first 19 characters, the part of the identifier that
\* survives the cut to 30 characters for every display name.
C8_DistinctPrefixDistinctUsernames ==
    \A i, j \in 1..Len(gen) :
        (i # j /\ SubSeq(gen[i].uuid, 1, 19) # SubSeq(gen[j].uuid, 1, 19))
            => gen[i].username # gen[j].username

C8_Witness ==
    \E i, j \in 1..Len(gen) :
        /\ i # j
        /\ gen[i].displayName = gen[j].displayName
        /\ Len(gen[i].displayName) >= 10
        /\ SubSeq(gen[i].uuid, 1, 19) # SubSeq(gen[j].uuid, 1, 19)
        /\ SubSeq(gen[i].uuid, 1, 8) = SubSeq(gen[j].uuid, 1, 8)
        /\ gen[i].username # gen[j].username

----------------------------------------------------------------------------
(* Claims about password generation (SpecPw) *)

\* C9: a password returned by oraclePasswordRandomString has exactly 30
\* characters, the first in [a-z] and every other one in [a-z0-9_].
C9_PasswordCharset ==
    (pw.pc = "done" /\ ~pw.err) =>
        /\ Len(pw.password) = 30
        /\ pw.password[1] \in LowerLetters
        /\ \A k \in 2..Len(pw.password) : pw.password[k] \in SafeChars

\* C24: a byte read for the first character counts by its low 5 bits, one
\* read for another character by its low 6 bits; a value of 26 resp. 37 or
\* more leaves position and result as they are and the next byte is read;
\* at every position each character of the alphabet is chosen by the same
\* number of the 256 bytes, 8 for the first character and 4 for the others
\* (counted at every position, along the streams that start at byte 0).
C24_NoModuloBias ==
    [][/\ (pw.pc = "loop" /\ pw'.pc = "loop" /\ pw'.pos = pw.pos + 1)
           => LET first == pw.characterIndex = 0
                  idx == pw'.lastByte % (IF first THEN 32 ELSE 64)
                  size == IF first THEN 26 ELSE 37
              IN  /\ idx >= size => /\ pw'.characterIndex = pw.characterIndex
                                   /\ pw'.result = pw.result
                  /\ idx < size => /\ pw'.characterIndex = pw.characterIndex + 1
                                  /\ pw'.result =
                                        [pw.result EXCEPT ![pw.characterIndex + 1] =
                                             letterBytes[idx + 1]]
       /\ (pw.pc = "loop" /\ pw.characterIndex < oraclePasswordLength
              /\ pw.start = 0)
           => \E f \in {[b \in Bytes |->
                            PasswordStep([characterIndex |-> pw.characterIndex,
                                          result |-> pw.result], b)]} :
                  LET k == pw.characterIndex + 1
                      chosen(ch) == {b \in Bytes : /\ f[b].characterIndex = k
                                                   /\ f[b].result[k] = ch}
                      alphabet == IF k = 1 THEN LowerLetters ELSE SafeChars
                  IN  /\ \A ch \in alphabet :
                             Cardinality(chosen(ch)) = IF k = 1 THEN 8 ELSE 4
                      /\ \A b \in Bytes :
                             \/ f[b].characterIndex = k /\ f[b].result[k] \in alphabet
                             \/ f[b] = [characterIndex |-> pw.characterIndex,
                                        result |-> pw.result]]_vars

\* a byte read for a later character was rejected: the position stayed
C24_Witness ==
    /\ pw.pc = "loop"
    /\ pw.characterIndex \in 1..29
    /\ pw.pos > pw.characterIndex
    /\ pw.lastByte % 64 >= 37
    /\ pw.result[pw.characterIndex + 1] = "NUL"

\* a password returned after bytes were rejected for the first and for a
\* later character
C9_Witness ==
    /\ pw.pc = "done" /\ ~pw.err
    /\ pw.start % 32 >= 26
    /\ pw.pos > 31
    /\ \E k \in 2..30 : pw.password[k] \in Digits \cup {"_"}

----------------------------------------------------------------------------
(* Claims about issuance (SpecIssue) *)

\* C1: an issue request that fails after its transaction began (a statement
\* fails to prepare or to execute, or the commit fails) leaves the database
\* as it was: no principal and no row of a statement executed before the
\* failure remains.
C1_AtomicCreation ==
    [][(last'.op = "issue" /\ last'.began /\ last'.err # "")
           => (ora'.users = ora.users /\ ora'.rows = ora.rows)]_vars

\* C11: an issue request for a role name that is not in the registry gets
\* the error response "unknown role" (or the error of the storage read) and
\* has no effect: no username and no password is generated, no handle is
\* acquired, no transaction is opened, no statement is prepared, and the
\* connection cache, the database, the storage and the leases are unchanged.
C11_UnknownRoleNoEffect ==
    [][(last'.op = "issue" /\ ~Role(storage, last'.role).present)
           => /\ \/ last'.err = "storage" /\ ~last'.hasResp
                 \/ last'.err = "" /\ last'.hasResp /\ last'.errorResponse
              /\ last'.generated = {}
              /\ last'.username = <<>>
              /\ last'.data = NoData
              /\ ~last'.acquired /\ last'.handle = NoHandle
              /\ ~last'.began
              /\ last'.prepared = <<>>
              /\ conn' = conn /\ ora' = ora /\ storage' = storage
              /\ issued' = issued]_vars

\* an unknown role is asked for while a handle is cached and a role exists
C11_Witness ==
    /\ last.op = "issue" /\ last.errorResponse
    /\ last.role = "batch"
    /\ conn.db # NoHandle
    /\ Role(storage, "web").present

\* C10: the lease metadata of an issued credential has exactly the keys
\* username and role and none of its values is the password, and the request
\* leaves the storage and the cached handle of the backend without it: the
\* storage is unchanged, the backend state changes in its handles only.
C10_PasswordNotRetained ==
    [][(IssueSucceeded(last') /\ last' # last)
           => /\ last'.internal.keys = {"username", "role"}
              /\ last'.data.password # <<>>
              /\ last'.internal.password = <<>>
              /\ last'.internal.username # last'.data.password
              /\ storage' = storage
              /\ \A h \in 1..Len(conn'.handles) :
                     /\ DOMAIN conn'.handles[h] = {"open", "closes", "dsn"}
                     /\ conn'.handles[h].dsn \in ConnectionKinds]_vars

\* an issued credential: the caller got a password, the lease metadata is
\* there
C10_Witness ==
    /\ IssueSucceeded(last)
    /\ Len(last.data.password) = oraclePasswordLength
    /\ last.internal.role = "web"
    /\ \E c \in issued : c.password = last.data.password

----------------------------------------------------------------------------
(* Claims about revocation (SpecRevoke) *)

\* C2: when revoke returns success, the principal named by the username of
\* the lease metadata does not exist and the credential does not
\* authenticate, whatever keys the metadata has.
C2_RevokedPrincipalGone ==
    (last.op = "revoke" /\ last.err = "" /\ last.username # <<>>)
        => /\ ~UserExists(ora, last.username)
           /\ \A c \in issued :
                  c.username = last.username
                      => ~Authenticates(ora, c.username, c.password)

\* The statements of the built-in default template for a username
DefaultRevocationStatements(username) ==
    << <<"REVOKE CONNECT FROM", " ">> \o username,
       <<"REVOKE CREATE SESSION FROM", " ">> \o username,
       <<"DROP USER", " ">> \o username >>

\* C3: a revoke whose metadata names a role that is not in the registry is
\* not refused for that; when it succeeds it has executed REVOKE CONNECT,
\* REVOKE CREATE SESSION and DROP USER for the username, in this order, and
\* its response carries a warning.
C3_MissingRoleDefaultTemplate ==
    (last.op = "revoke" /\ last.role # "" /\ ~Role(storage, last.role).present
                        /\ last.err = "")
        => /\ last.hasResp
           /\ last.warnings > 0
           /\ Executed(last) = DefaultRevocationStatements(last.username)

\* The statements a successful revoke has to have executed, in every
\* revision: those of the template the revision takes for the lease
RevocationTemplate(l) ==
    LET role == IF l.role # "" THEN Role(storage, l.role) ELSE NoRole
    IN  CASE variant = "tx" -> role.revocationSQL
          [] variant = "kill" -> revocationSQL
          [] OTHER -> IF role.present /\ role.revocationSQL # <<>>
                      THEN role.revocationSQL ELSE defaultRevocationSQL

\* C16: revoke returns an error and no response when a call on the database
\* failed; so a revoke that returns success has made every call: the session
\* query and a kill for every session (part_000), Prepare and Exec of every
\* statement of its template, and the commit (secret_creds.go).
C16_RevocationErrorsSurface ==
    last.op = "revoke" =>
        /\ last.err # "" => ~last.hasResp
        /\ last.stage \in {"begin", "prepare", "query", "kill", "exec", "commit"}
               => last.err # ""
        /\ last.err = "" =>
               LET stmts == Statements(RevocationTemplate(last),
                                       [name |-> last.username])
                   asked == IF variant = "kill" THEN <<last.sessionQuery>> ELSE <<>>
               IN  /\ last.prepared = asked \o stmts
                   /\ last.executed = Len(last.prepared)
                   /\ variant = "kill" => SessionsOf(ora, last.username) = {}
                   /\ variant = "tx" => last.began /\ last.committed

\* a revoke whose last statement the database rejected, after two that it
\* executed: the principal has a session
C16_Witness ==
    /\ last.op = "revoke"
    /\ last.err = "sql" /\ last.stage = "exec"
    /\ last.executed = 2
    /\ ~last.hasResp
    /\ SessionsOf(ora, last.username) # {}
    /\ UserExists(ora, last.username)

\* C17: when a revoke request passes its first revocation statement to
\* Prepare, every session the principal had has been killed by the request;
\* a request whose session query or kill failed has prepared no revocation
\* statement.
C17_KillBeforeRevocation ==
    [][(last'.op = "revoke" /\ last' # last)
           => LET asked == IF last'.sessionQuery # <<>> THEN 1 ELSE 0
              IN  /\ Len(last'.prepared) > asked
                      => \A x \in SessionsOf(ora, last'.username) :
                             x.sid \in last'.killed
                  /\ last'.stage \in {"query", "kill"}
                      => Len(last'.prepared) = asked]_vars

\* C18: a revoke request that follows a revoke of the same lease leaves the
\* database, the storage (roles, configuration) and the cached handle as
\* they are, and with them every other principal; it succeeds or fails
\* because the principal is gone (requests with a call that was cut short
\* or a storage read that failed are left out).
C18_RevokeIdempotent ==
    [][(/\ last.op = "revoke" /\ last.err \in {"", "sql"}
        /\ last'.op = "revoke" /\ last'.err \in {"", "sql"}
        /\ last'.username = last.username /\ last'.role = last.role
        \* a request, not a client that logs in
        /\ ~(ora.sessions \subseteq ora'.sessions /\ ora'.sessions # ora.sessions))
           => /\ ora' = ora
              /\ storage' = storage
              /\ conn' = conn
              /\ \/ last'.err = ""
                 \/ ~UserExists(ora', last'.username)]_vars

\* C19: no statement that an issue or a revoke request passed to Prepare
\* holds a template token.
C19_NoResidualToken ==
    last.op \in {"issue", "revoke"} =>
        \A i \in 1..Len(last.prepared) :
            \A j \in 1..Len(last.prepared[i]) :
                last.prepared[i][j] \notin TemplateTokens

\* The answer of the revision at hand to a revoke request
RevokeOutcome(meta, cut, strict, sfail) ==
    CASE variant = "tx" -> RevokeOutcomeTx(meta, cut, strict, sfail)
      [] variant = "kill" -> RevokeOutcomeKill(meta, cut, strict, sfail)
      [] OTHER -> RevokeOutcomeRole(meta, cut, strict, sfail)

\* C21: in every state, a revoke request whose metadata has no username is
\* answered with the missing-username error; no role was looked up, no
\* handle acquired, no session killed, no statement prepared, and the
\* database and the cache are as before.
C21_MissingUsernameFirst ==
    \A c \in issued, cut \in 0..MaxCut, strict \in BOOLEAN,
       sfail \in {"none", "role", "connection"} :
        LET out == RevokeOutcome(InternalData(c, "nouser"), cut, strict, sfail)
        IN  /\ out.last.op = "revoke"
            /\ out.last.err = "missing username"
            /\ ~out.last.hasResp
            /\ ~out.last.acquired
            /\ out.last.role = "" /\ out.last.warnings = 0
            /\ out.last.prepared = <<>> /\ out.last.killed = {}
            /\ out.conn = conn
            /\ out.ora = ora

\* a revoke without a username was refused while the principal of the lease
\* and a session of it were there, and no handle was cached
C21_Witness ==
    /\ last.op = "revoke" /\ last.err = "missing username"
    /\ \E c \in issued : UserExists(ora, c.username) /\ SessionsOf(ora, c.username) # {}
    /\ ~last.acquired

\* C22: the principal of a lease whose revoke succeeded does not exist and
\* does not authenticate in any later state, whatever renew and revoke
\* requests follow; a renew request leaves the principals as they are, so
\* that a lease that is not revoked keeps a principal that authenticates.
C22_RevokedIsTerminal ==
    [][/\ \A c \in issued' :
              c.revoked => /\ ~UserExists(ora', c.username)
                           /\ ~Authenticates(ora', c.username, c.password)
       /\ last'.op = "renew"
              => /\ ora'.users = ora.users
                 /\ \A c \in issued :
                        ~c.revoked => \E d \in issued' :
                                          d.username = c.username /\ ~d.revoked]_vars

\* C27: after a revoke request that failed when some of its revocation
\* statements had been executed, the next revoke request with the same
\* metadata succeeds and the principal is gone, provided no call of it is
\* cut short and the principal has no session left that the request does
\* not kill.
C27_RetryAfterPartialFailure ==
    [][(/\ last.op = "revoke" /\ last.err # ""
        /\ last.executed > (IF last.sessionQuery # <<>> THEN 1 ELSE 0)
        /\ last'.op = "revoke" /\ last' # last
        /\ last'.username = last.username /\ last'.role = last.role
        /\ last'.err \notin {"conn", "storage"}
        /\ variant = "kill" \/ SessionsOf(ora, last.username) = {})
           => /\ last'.err = ""
              /\ ~UserExists(ora', last'.username)]_vars

\* C29: a revoke request that has no username string to work with fails
\* and has passed no statement to Prepare.
C29_NoEmptyUsername ==
    (last.op = "revoke" /\ last.username = <<>>)
        => /\ last.err # ""
           /\ last.prepared = <<>>
           /\ ~last.acquired

\* C30: the response of a revoke request that succeeded carries a warning
\* exactly when its metadata names a role and the registry has no such
\* role.
C30_WarningIffRoleMissing ==
    (last.op = "revoke" /\ last.err = "")
        => /\ last.warnings > 0
                 <=> (last.role # "" /\ ~Role(storage, last.role).present)
           /\ last.hasResp <=> last.warnings > 0

----------------------------------------------------------------------------
(* Claims about the connection manager (SpecConn) *)

\* C12: after a request that called b.DB the cache holds no handle that was
\* closed, whether the call returned a handle or an error; a handle that
\* answers the probe is returned as it is.
C12_CacheNeverClosed ==
    /\ conn.db # NoHandle => conn.handles[conn.db].open
    /\ (last.acquired /\ last.err = "") => last.handle = conn.db

\* C13: a request that calls b.DB while no handle is cached and nothing is
\* stored under config/connection fails with "configure the DB connection
\* with config/connection first" (or with the error of the storage read):
\* no handle is opened, the cache stays empty, no transaction is begun and
\* no statement is prepared or executed.
C13_NotConfigured ==
    [][(/\ last'.op \in {"issue", "revoke", "renew"}
        /\ last'.acquired
        /\ ora'.up = ora.up        \* a request, not the server going away
        /\ conn.db = NoHandle
        /\ ~storage.connection.present
        /\ last'.err # "storage")
           => /\ last'.err = "not configured"
              /\ ~last'.hasResp
              /\ last'.handle = NoHandle
              /\ conn' = conn
              /\ ~last'.began
              /\ last'.prepared = <<>>
              /\ last'.killed = {}
              /\ ora' = ora]_vars

\* a revoke before the connection was configured, for a role that is there
C13_Witness ==
    /\ last.op = "revoke"
    /\ last.err = "not configured"
    /\ conn = EmptyConn
    /\ ~storage.connection.present
    /\ Role(storage, "web").present

\* C14: a reset leaves the cache empty and the handle that was cached
\* closed; a request that acquires a handle while the cache is empty gets a
\* handle that did not exist before, opened from the settings that are in
\* the storage now, and this handle is cached.
C14_ResetThenReopen ==
    [][/\ last'.op = "reset"
           => /\ conn'.db = NoHandle
              /\ conn.db # NoHandle => ~conn'.handles[conn.db].open
       /\ (conn.db = NoHandle /\ last'.acquired /\ last'.err = "")
           => /\ last'.handle \notin 0..Len(conn.handles)
              /\ conn'.db = last'.handle
              /\ conn'.handles[last'.handle].open
              /\ conn'.handles[last'.handle].dsn = storage.connection.kind]_vars

\* after a reset that followed new settings, a request got a second handle,
\* opened from the new settings; the first one is closed
C14_Witness ==
    /\ last.acquired /\ last.err = ""
    /\ last.handle = 2
    /\ conn.db = 2
    /\ conn.handles[1].dsn # conn.handles[2].dsn
    /\ ~conn.handles[1].open
    /\ conn.handles[1].closes = 2

\* C31: a handle that was opened and is not the cached one is closed, so at
\* most one handle is open, and Close was called on no handle more than once.
C31_OneLiveHandle ==
    /\ \A h \in 1..Len(conn.handles) : conn.handles[h].open => h = conn.db
    /\ \A h \in 1..Len(conn.handles) : conn.handles[h].closes <= 1

----------------------------------------------------------------------------
(* Claims about concurrent requests (SpecConc) *)

\* C15: at most one goroutine is inside DB or ResetDB, it is the one that
\* holds b.lock, and no goroutine holds the lock while it waits for it or
\* makes its calls on the handle.
C15_MutualExclusion ==
    /\ Cardinality({t \in Threads : threads[t].pc \in {"inDB", "inReset"}}) <= 1
    /\ \A t \in Threads : (lock = t) <=> (threads[t].pc \in {"inDB", "inReset"})
    /\ lock \in Threads \cup {NoThread}

\* two requests are making calls on the same open handle, one of them is to
\* execute a statement next, while a third party could take the lock
C15_Witness ==
    \E t, u \in Threads :
        /\ t # u
        /\ threads[t].pc = "run" /\ threads[u].pc = "run"
        /\ threads[t].handle = threads[u].handle
        /\ conn.handles[threads[t].handle].open
        /\ threads[t].op = "issue" /\ threads[u].op = "revoke"
        /\ threads[t].todo # <<>> /\ Head(threads[t].todo).kind = "stmt"
        /\ threads[u].todo # <<>> /\ Head(threads[u].todo).kind \in {"stmt", "kill"}
        /\ lock = NoThread

\* C26: the handle of a request that still has calls to make on it is open.
C26_HandleStaysOpen ==
    \A t \in Threads :
        (threads[t].pc = "run" /\ threads[t].todo # <<>>)
            => conn.handles[threads[t].handle].open

\* C28: when a revoke request executes DROP USER on its open handle, the
\* principal has no session.
C28_NoSessionAtDrop ==
    [][\A t \in Threads :
           (/\ threads[t].pc = "run" /\ threads[t].op = "revoke"
            /\ threads[t].todo # <<>>
            /\ Head(threads[t].todo).kind = "stmt"
            /\ Head(threads[t].todo).sql[1] = "DROP USER"
            /\ conn.handles[threads[t].handle].open
            /\ threads'[t] # threads[t])
               => SessionsOf(ora, threads[t].username) = {}]_vars

----------------------------------------------------------------------------
(* Claims about renewal (SpecRenew) *)

\* C4: renew does not touch the database: no request acquires a handle from
\* the connection manager, prepares or executes a statement.
C4_RenewNoDatabase ==
    last.op = "renew"
        => /\ ~last.acquired
           /\ last.handle = NoHandle
           /\ last.prepared = <<>>

\* C5: the expiry of a renewed lease, the time of the request plus the
\* returned TTL, is not after issueTime + leaseMax of the lease policy (nor
\* after issueTime + the maximum of the mount, which applies when the policy
\* has no leaseMax); a renew requested after issueTime + leaseMax returns no
\* TTL: it is refused as past the maximum, unless the request failed before
\* the policy was read.
C5_LeaseBound ==
    last.op = "renew" =>
        LET leaseMax == Lease(storage).leaseMax
        IN  /\ last.err = ""
                => last.at + last.ttl <= last.issueTime + SystemMaxLeaseTTL
            /\ (last.err = "" /\ leaseMax > 0)
                => last.at + last.ttl <= last.issueTime + leaseMax
            /\ (leaseMax > 0 /\ last.at > last.issueTime + leaseMax)
                => /\ ~last.hasResp
                   /\ last.err \in {"past the max TTL", "storage", "missing username"}

\* a renew that asked for more than the ceiling leaves: its TTL is cut
C5_Witness ==
    /\ last.op = "renew" /\ last.err = ""
    /\ Lease(storage).leaseMax > 0
    /\ last.ttl > 0
    /\ last.ttl < Lease(storage).lease
    /\ last.at + last.ttl = last.issueTime + Lease(storage).leaseMax

\* C20: a successful issue has the stored config/lease "lease" as its TTL,
\* and 0 when no config/lease was written; without a config/lease an issue
\* for a role that exists goes on to generate the credential, so what fails
\* it then is something else.
C20_IssueTTL ==
    last.op = "issue" =>
        /\ IssueSucceeded(last) /\ storage.lease.present
               => last.ttl = storage.lease.lease
        /\ IssueSucceeded(last) /\ ~storage.lease.present => last.ttl = 0
        /\ ~storage.lease.present /\ ~last.errorResponse
               => "username" \in last.generated

\* an issue succeeded although no config/lease was ever written
C20_Witness ==
    /\ IssueSucceeded(last)
    /\ ~storage.lease.present
    /\ last.ttl = 0
    /\ \E c \in issued : c.username = last.data.username /\ c.expires = c.issueTime

----------------------------------------------------------------------------
(* Specifications *)

IdlePw ==
    [start |-> 0, stride |-> 1, pos |-> 0, pc |-> "idle", characterIndex |-> 0,
     result |-> EmptyResult, lastByte |-> 0, password |-> <<>>, err |-> FALSE]

\* The backend after Backend(conf), built from the last revision
BackendIdle ==
    /\ variant = "role"
    /\ storage = EmptyStorage
    /\ conn = EmptyConn
    /\ ora = EmptyDatabase
    /\ issued = {}
    /\ now = 0
    /\ last = Idle
    /\ lock = NoThread
    /\ threads = [t \in Threads |-> IdleThread]

\* Username generation alone
UserInit == gen = <<>> /\ pw = IdlePw /\ BackendIdle
UserNext == GenerateUsername
SpecUser == UserInit /\ [][UserNext]_vars

\* The three revisions of secret_creds.go in the repository: "tx"
\* (builtin/logical/oracle/secret_creds.go) runs the revocation in a
\* transaction, "kill" (the second file of part_000) terminates the sessions
\* first, "role" (part_001) looks the role up and has a default template.
Variants == {"tx", "kill", "role"}

BackendInit ==
    /\ variant \in Variants
    /\ storage = EmptyStorage
    /\ conn = EmptyConn
    /\ ora = EmptyDatabase
    /\ issued = {}
    /\ now = 0
    /\ last = Idle
    /\ lock = NoThread
    /\ threads = [t \in Threads |-> IdleThread]

\* Issuance: roles, connection settings, issue calls
IssueRoles ==
    { RoleEntry(testRole, <<>>), RoleEntry(badSecondRole, <<>>),
      RoleEntry(dmlThenBadRole, <<>>), RoleEntry(dmlRole, <<>>) }

\* display name and identifier of an issue call; the empty display name
\* gives a username the database does not accept
Foobar == <<"f","o","o","b","a","r">>
UUID0 == FormatUUID(<<"0","0","0","0","0">>)
UUIDf == FormatUUID(<<"f","0","0","0","0">>)
IssueInputs == { <<Foobar, UUID0>>, <<Foobar, UUIDf>>, <<<<>>, UUID0>> }
Cuts == 0..MaxCut

\* what the password generator returns: a password, or the error of a
\* random source that stops after three bytes
GoodPassword == oraclePasswordRandomString(Tape(0, 1, 40))
NoPassword == oraclePasswordRandomString(<<0, 1, 2>>)

\* issue calls: one with a database call that fails, or none (cut = MaxCut)
IssueCall ==
    \E cut \in Cuts :
        pathRoleCreateRead("web", Foobar, UUID0, GoodPassword, cut, FALSE, "none")

\* issue calls for other callers, and with a driver that parses a statement
\* when it prepares it
IssueCallOther ==
    \E in \in IssueInputs, strict \in BOOLEAN :
        pathRoleCreateRead("web", in[1], in[2], GoodPassword, MaxCut, strict, "none")

\* issue calls that fail before they reach the database: unknown role, a
\* storage read that errors, a random source that errors
IssueCallEarly ==
    \E early \in { <<"batch", GoodPassword, "none">>, <<"web", NoPassword, "none">>,
                   <<"web", GoodPassword, "role">>, <<"web", GoodPassword, "lease">>,
                   <<"web", GoodPassword, "connection">> } :
        pathRoleCreateRead(early[1], Foobar, UUID0, early[2], MaxCut, TRUE, early[3])

IssueInit == gen = <<>> /\ pw = IdlePw /\ BackendIdle
IssueNext ==
    \/ ConfigConnectionWrite("ok")
    \/ \E e \in IssueRoles : RoleWrite("web", e)
    \/ RoleDelete("web")
    \/ IssueCall
    \/ IssueCallOther
    \/ IssueCallEarly
SpecIssue == IssueInit /\ [][IssueNext]_vars

\* Revocation: roles with and without a revocation template, one issued
\* credential, its sessions, revoke calls of every metadata shape
RevokeRoles ==
    { RoleEntry(testRole, <<>>), RoleEntry(testRole, dropOnlySQL),
      RoleEntry(testRole, passwordRevocationSQL) }

\* A lease of an earlier mount of the backend, and its principal, which the
\* database still holds
OldLease ==
    [username |-> NewUsername(Foobar, UUIDf), password |-> GoodPassword.password,
     role |-> "web", issueTime |-> 0, expires |-> 0, revoked |-> FALSE]

OldPrincipal ==
    [name |-> OldLease.username, password |-> OldLease.password,
     privs |-> {"CONNECT", "CREATE SESSION"}]

\* a number of database calls no request reaches: none of them fails
NoFault == MaxCut + MaxSessions + 2

IssueCallClean ==
    pathRoleCreateRead("web", Foobar, UUID0, GoodPassword, NoFault, FALSE, "none")

\* revoke calls with what issue stored: one with a database call that fails,
\* or none
RevokeCall ==
    \E c \in issued, cut \in Cuts \cup {NoFault} :
        \/ secretCredsRevokeTx(c, "full", cut, FALSE, "none")
        \/ secretCredsRevokeKill(c, "full", cut, FALSE, "none")
        \/ secretCredsRevokeRole(c, "full", cut, FALSE, "none")

\* revoke calls with other metadata, a storage read that errors, a driver
\* that parses a statement when it prepares it
RevokeCallOther ==
    \E c \in issued,
       o \in { <<"norole", FALSE, "none">>, <<"nouser", FALSE, "none">>,
               <<"badtype", FALSE, "none">>, <<"badtype", TRUE, "none">>,
               <<"full", TRUE, "none">>, <<"full", FALSE, "role">>,
               <<"full", FALSE, "connection">> } :
        \/ secretCredsRevokeTx(c, o[1], NoFault, o[2], o[3])
        \/ secretCredsRevokeKill(c, o[1], NoFault, o[2], o[3])
        \/ secretCredsRevokeRole(c, o[1], NoFault, o[2], o[3])

\* the renew requests the host sends for a lease before and after a revoke
RenewBetween ==
    \E c \in issued :
        \/ secretCredsRenewTx(c, "full", 0, NoFault, FALSE, "none")
        \/ secretCredsRenew(c, 0, "none")

RevokeInit ==
    /\ gen = <<>> /\ pw = IdlePw
    /\ variant \in Variants
    /\ storage = EmptyStorage
    /\ conn = EmptyConn
    /\ ora = [EmptyDatabase EXCEPT !.users = {OldPrincipal}]
    /\ issued = {}
    /\ now = 0
    /\ last = Idle
    /\ lock = NoThread
    /\ threads = [t \in Threads |-> IdleThread]
RevokeNext ==
    \/ ConfigConnectionWrite("ok")
    \/ \E e \in RevokeRoles : RoleWrite("web", e)
    \/ RoleDelete("web")
    \/ IssueCallClean
    \/ \E c \in issued : ClientConnect(c)
    \/ RenewBetween
    \/ RevokeCall
    \/ RevokeCallOther
SpecRevoke == RevokeInit /\ [][RevokeNext]_vars

\* Renewal: lease policies, the clock, one issued credential, renew calls
LeasePolicies == { <<1, 2>>, <<2, 1>>, <<0, 4>> }

Increments == {0, 1, 4}

RenewCall ==
    \E c \in issued, increment \in Increments :
        \/ secretCredsRenewTx(c, "full", increment, NoFault, FALSE, "none")
        \/ secretCredsRenew(c, increment, "none")

\* renew calls with other metadata, a storage read or a database call that
\* fails
RenewCallOther ==
    \E c \in issued :
        \/ \E o \in { <<"norole", NoFault, TRUE, "none">>,
                       <<"nouser", NoFault, FALSE, "none">>,
                       <<"badtype", NoFault, FALSE, "none">>,
                       <<"full", 0, FALSE, "none">>, <<"full", 1, FALSE, "none">>,
                       <<"full", NoFault, FALSE, "lease">>,
                       <<"full", NoFault, FALSE, "connection">> } :
               secretCredsRenewTx(c, o[1], 0, o[2], o[3], o[4])
        \/ secretCredsRenew(c, 0, "lease")

RenewInit == gen = <<>> /\ pw = IdlePw /\ BackendInit
RenewNext ==
    \/ ConfigConnectionWrite("ok")
    \/ RoleWrite("web", RoleEntry(testRole, <<>>))
    \/ \E p \in LeasePolicies : ConfigLeaseWrite(p[1], p[2])
    \/ IssueCallClean
    \/ Clean
    \/ Tick
    \/ RenewCall
    \/ RenewCallOther
SpecRenew == RenewInit /\ [][RenewNext]_vars

\* Connection manager: connection settings, a server that goes away and
\* comes back, resets, and the requests that acquire a handle
ConnRequest ==
    \E sfail \in {"none", "connection"} :
        \/ pathRoleCreateRead("web", Foobar, UUID0, GoodPassword, NoFault, FALSE, sfail)
        \/ \E c \in issued \cup {OldLease} :
               \/ secretCredsRevokeTx(c, "full", NoFault, FALSE, sfail)
               \/ secretCredsRevokeKill(c, "full", NoFault, FALSE, sfail)
               \/ secretCredsRevokeRole(c, "full", NoFault, FALSE, sfail)
               \/ secretCredsRenewTx(c, "full", 0, NoFault, FALSE, sfail)

ConnInit == gen = <<>> /\ pw = IdlePw /\ BackendInit
ConnNext ==
    \/ \E kind \in ConnectionKinds : ConfigConnectionWrite(kind)
    \/ RoleWrite("web", RoleEntry(testRole, <<>>))
    \/ ServerDown
    \/ ServerUp
    \/ Clean
    \/ ConnRequest
SpecConn == ConnInit /\ [][ConnNext]_vars

\* Concurrency: the requests of the goroutines, call by call, in the
\* revision of part_000 (backend.go and its secret_creds.go), after the
\* connection was configured and the test role written
ConcInit ==
    /\ gen = <<>> /\ pw = IdlePw
    /\ variant = "kill"
    /\ storage = [EmptyStorage EXCEPT
                      !.connection = [present |-> TRUE, kind |-> "ok"],
                      !.roles["web"] = RoleEntry(testRole, <<>>)]
    /\ conn = EmptyConn
    /\ ora = EmptyDatabase
    /\ issued = {}
    /\ now = 0
    /\ last = [Idle EXCEPT !.op = "roles/write", !.role = "web"]
    /\ lock = NoThread
    /\ threads = [t \in Threads |-> IdleThread]
ConcNext ==
    \/ \E c \in issued : ClientConnect(c)
    \/ \E c \in issued : secretCredsRenew(c, 0, "none")
    \/ \E t \in Threads :
           \/ IssueStart(t, Foobar, GoodPassword.password)
           \/ \E c \in issued \cup {OldLease} : RevokeStart(t, c)
           \/ ResetStart(t)
           \/ DBLock(t)
           \/ DBUnlock(t)
           \/ ResetDBUnlock(t)
           \/ HandleCall(t)
           \/ RequestReturn(t)
SpecConc == ConcInit /\ [][ConcNext]_vars

----------------------------------------------------------------------------
(* Claims about the statements of an issue request (SpecIssue) *)

\* C23: an issue request that began its transaction has prepared a prefix of
\* the non-empty trimmed fragments of the role's template, in the order of
\* the template and with both tokens replaced; every statement but the last
\* prepared one was executed, and the last one too unless the request
\* failed at it; the request stops before the end of the template only with
\* an error; Commit is called only after all statements were executed, and a
\* credential is returned only after Commit succeeded.
C23_CreationInOrder ==
    last.op = "issue" =>
        LET stmts == Statements(Role(storage, last.role).sql,
                                [name |-> last.username,
                                 password |-> GoodPassword.password])
            n == Len(last.prepared)
        IN  /\ ~last.began => n = 0 /\ ~IssueSucceeded(last)
            /\ last.began =>
                   /\ n <= Len(stmts)
                   /\ last.prepared = SubSeq(stmts, 1, n)
                   /\ \A i \in 1..n : TrimSpace(last.prepared[i]) # <<>>
                   /\ last.executed \in {n - 1, n} \cap Nat
                   /\ last.executed < n
                          => last.err # "" /\ last.stage \in {"prepare", "exec"}
                   /\ n < Len(stmts) => last.err # ""
                   /\ last.committed \/ last.stage = "commit"
                          => n = Len(stmts) /\ last.executed = n
                   /\ IssueSucceeded(last) <=> last.committed
                   /\ last.committed => last.err = ""

\* a credential was returned for a template with an empty fragment, after
\* its three statements and Commit
C23_Witness ==
    /\ IssueSucceeded(last) /\ last.committed
    /\ last.executed = 3
    /\ Len(ParseArbitraryStringSlice(Role(storage, last.role).sql, ";")) > 3
    /\ \E i \in 1..Len(last.prepared) : last.prepared[i][1] = "INSERT INTO audit VALUES"

----------------------------------------------------------------------------
(* Termination of the password generator (SpecPwLive) *)

\* The issue request that called the generator goes on with what it returned
IssueGenerated ==
    /\ pw.pc = "done"
    /\ pathRoleCreateRead("web", Foobar, UUID0,
                          [password |-> pw.password, err |-> pw.err],
                          NoFault, FALSE, "none")

\* A configured backend, a role, and a random source that never ends but
\* may fail; the loop of the generator and the return are always scheduled
PwLiveInit ==
    /\ gen = <<>>
    /\ PasswordInit
    /\ variant = "tx"
    /\ storage = [EmptyStorage EXCEPT
                      !.connection = [present |-> TRUE, kind |-> "ok"],
                      !.roles["web"] = RoleEntry(testRole, <<>>)]
    /\ conn = EmptyConn
    /\ ora = EmptyDatabase
    /\ issued = {}
    /\ now = 0
    /\ last = [Idle EXCEPT !.op = "roles/write", !.role = "web"]
    /\ lock = NoThread
    /\ threads = [t \in Threads |-> IdleThread]
PwLiveNext ==
    \/ PasswordReadEndless
    \/ PasswordSourceError
    \/ PasswordReturn
    \/ IssueGenerated
SpecPwLive ==
    /\ PwLiveInit /\ [][PwLiveNext]_vars
    /\ WF_vars(PasswordReadEndless) /\ WF_vars(PasswordReturn)

\* the byte read last is out of range for the position the loop is at
Rejecting ==
    /\ pw.pc = "loop"
    /\ IF pw.characterIndex = 0 THEN pw.lastByte % 32 >= 26
                                ELSE pw.lastByte % 64 >= 37

\* C25: the generator returns, unless from some read on every byte of the
\* source is out of range; it returns either 30 characters and no error, or
\* the empty password and the error of a read that failed before the 30
\* characters were there; an issue request whose generator returned the
\* error fails with it and has not acquired a handle.
C25_PasswordTerminates ==
    /\ <>(pw.pc = "done") \/ <>[]Rejecting
    /\ [](pw.pc = "done" =>
             /\ ~pw.err => /\ Len(pw.password) = oraclePasswordLength
                            /\ pw.characterIndex = oraclePasswordLength
                            /\ \A k \in 1..Len(pw.password) : pw.password[k] # "NUL"
             /\ pw.err => /\ pw.password = <<>>
                           /\ pw.characterIndex < oraclePasswordLength)
    /\ [](last.op = "issue" =>
             /\ pw.err <=> last.err = "entropy"
             /\ pw.err => /\ ~last.acquired /\ ~last.began /\ ~last.hasResp
                           /\ conn = EmptyConn /\ ora = EmptyDatabase
                           /\ issued = {})

\* the generator returned a password although bytes were rejected, and the
\* issue request went on with it
C25_Witness ==
    /\ pw.pc = "done" /\ ~pw.err
    /\ pw.pos > oraclePasswordLength
    /\ IssueSucceeded(last)
    /\ last.data.password = pw.password

----------------------------------------------------------------------------
(* The lock of the connection manager (SpecLock) *)

\* Revoke requests and resets without end, each in a goroutine of its own,
\* on a backend whose config/connection entry is missing, usable, not
\* decodable or not a data source name; the principal of the lease to
\* revoke is in the database.  A reset is requested while the handles of
\* the model allow the handle that follows it.
LockInit ==
    /\ gen = <<>> /\ pw = IdlePw
    /\ variant = "kill"
    /\ \E c \in {NoConnection} \cup {[present |-> TRUE, kind |-> k] : k \in ConnectionKinds} :
           storage = [EmptyStorage EXCEPT !.connection = c,
                                          !.roles["web"] = RoleEntry(testRole, <<>>)]
    /\ conn = EmptyConn
    /\ ora = [EmptyDatabase EXCEPT !.users = {OldPrincipal}]
    /\ issued = {}
    /\ now = 0
    /\ last = [Idle EXCEPT !.op = "roles/write", !.role = "web"]
    /\ lock = NoThread
    /\ threads = [t \in Threads |-> IdleThread]
LockNext ==
    \E t \in Threads :
        \/ RevokeStart(t, OldLease)
        \/ /\ Len(conn.handles) + (IF conn.db = NoHandle THEN 1 ELSE 0)
                  + Running("reset") < MaxHandles
           /\ ResetStart(t)
        \/ DBLock(t)
        \/ DBUnlock(t)
        \/ ResetDBUnlock(t)
        \/ HandleCall(t)
        \/ RequestReturn(t)
        \/ NextRequest(t)

\* sync.Mutex hands the lock to a goroutine that keeps waiting for it; the
\* scheduler runs the goroutine that holds it to the return of DB or ResetDB
LockFairness ==
    \A t \in Threads :
        /\ SF_vars(DBLock(t))
        /\ WF_vars(DBUnlock(t))
        /\ WF_vars(ResetDBUnlock(t))
SpecLock == LockInit /\ [][LockNext]_vars /\ LockFairness

\* C32: a goroutine that leaves DB or ResetDB, by whichever return, leaves
\* the lock free, so the lock is held by a goroutine inside DB or ResetDB
\* only; the holder can always return; a goroutine that waits for the lock
\* obtains it, and the lock that is held is released.
C32_LockReleased ==
    /\ [][\A t \in Threads :
              (/\ threads[t].pc \in {"inDB", "inReset"}
               /\ threads'[t].pc \notin {"inDB", "inReset"}) => lock' = NoThread]_vars
    /\ [](\A t \in Threads : lock = t => threads[t].pc \in {"inDB", "inReset"})
    /\ [](\A t \in Threads :
              lock = t => ENABLED (DBUnlock(t) \/ ResetDBUnlock(t)))
    /\ \A t \in Threads : (threads[t].pc = "lock") ~> (lock = t)
    /\ \A t \in Threads : (lock = t) ~> (lock = NoThread)

\* while nothing usable is stored under config/connection and no handle was
\* ever opened, a goroutine has returned and another one, which is to reset
\* the cache, has taken the lock
C32_Witness ==
    \E t, u \in Threads :
        /\ threads[t].pc = "done"
        /\ threads[u].pc = "inReset" /\ lock = u
        /\ storage.connection.kind \in {"none", "garbled", "baddsn"}
        /\ conn = EmptyConn

\* Password generation alone
PwInit == gen = <<>> /\ PasswordInit /\ BackendIdle
PwNext == PasswordRead \/ PasswordReadError \/ PasswordReturn
SpecPw == PwInit /\ [][PwNext]_vars

====
